---- MODULE Spec2Model ----
(***************************************************************************)
(* Model of the feritscope radar client: the tracked-aircraft history      *)
(* policy (types.rs), the shared state store (state.rs) and the streaming  *)
(* client with its message router and keep-alive task (network.rs).        *)
(*                                                                         *)
(* Option<T> values are modelled as sequences: <<>> is None, <<v>> is      *)
(* Some(v).  HashMap<K, V> values are functions whose domain is the set of *)
(* keys present.  World coordinates are integers, so the f64 comparison    *)
(* sqrt(dx*dx + dy*dy) > 100.0 is exactly dx*dx + dy*dy > 100*100.         *)
(***************************************************************************)
EXTENDS Integers, Sequences, FiniteSets, TLC

VARIABLES
    aircraft,       \* RadarState.aircraft: callsign -> TrackedAircraft
    controllers,    \* RadarState.controllers: Vec<ControllerPosition>
    atis,           \* RadarState.atis: airport -> Atis
    config,         \* RadarState.config: the active RadarConfig
    status,         \* RadarState.connection_status: ConnectionStatus
    now,            \* chrono::Utc::now().timestamp_millis()
    pc,             \* position of NetworkManager::run
    runConfig,      \* the `config` local of NetworkManager::run
    conn,           \* number of connections established so far
    kaPc,           \* position of the keep-alive task of each connection
    kaSeen,         \* what each keep-alive task last read from the flag
    pings,          \* probes sent by the keep-alive task of each connection
    fresh,          \* callsigns sighted once and not updated since
    watchPc,        \* position of ConfigWatcher::watch
    held,           \* the store locks each thread holds, with their mode
    opPc,           \* the store operation each thread is in, and how far
    snap,           \* the configuration value each thread has read
    projection,     \* RadarApp.projection: center, scale and screen size
    selected_aircraft,  \* RadarRenderer.selected_aircraft
    painter,        \* the draw instructions of the last frame, in order
    moves,          \* pans and zooms handled so far
    lastOp          \* the operation performed by the last step, its input,
                    \* its result and the store it started from

storeVars == <<aircraft, controllers, atis, config, status>>
netVars == <<pc, runConfig, conn, kaPc, kaSeen, pings>>
vars == <<aircraft, controllers, atis, config, status, now, pc, runConfig,
          conn, kaPc, kaSeen, pings, fresh, watchPc, held, opPc, snap,
          projection, selected_aircraft, painter, moves,
          lastOp>>
lockVars == <<held, opPc, snap>>
uiVars == <<projection, selected_aircraft, painter, moves>>
sideVars == <<watchPc, held, opPc, snap, uiVars>>

----------------------------------------------------------------------------
(* Bounds of the model *)

MaxTicks == 2
TickMs == 500
MaxConn == 2
MaxPings == 1
MaxHistoryLength == 2

MaxMoves == 3
MaxClock == 1200

\* Resolution of the numbers of the projection: an f64 world quantity is an
\* integer count of 1/StudRes stud, an f32 screen quantity an integer count
\* of 1/PixelRes pixel.
StudRes == 100
PixelRes == 4

(* Program constants *)

\* radar.rs: Projection::new and Projection::zoom.
DefaultScale == 100
MinScale == 1
MaxScale == 1000
ZoomInTenths == 9
ZoomOutTenths == 11

\* radar.rs: RadarRenderer.
FlashHalfPeriod == 500
SecondsPerMinute == 60
NorthOffset == 90
TargetSize == 6

\* 0.5442765 studs per second for one knot, digit by digit after the point.
StudsPerKnotPerSec == <<5, 4, 4, 2, 7, 6, 5>>

\* config.rs and ui.rs.
DefaultVectorMinutes == 3
DefaultLineSpacing == 14
ClickThreshold == 15

HistoryThreshold == 100
DefaultHistoryLength == 20
DefaultReconnectDelay == 5

\* state.rs: milliseconds in one second of max_age_secs.
MillisPerSecond == 1000

----------------------------------------------------------------------------
(* Input domains *)

Callsigns == {"ABC123", "XYZ1"}

Pos(x, y) == [x |-> x, y |-> y]

Info(p) == [position |-> p]

\* (0,0)-(60,80) is exactly 100 apart, (0,0)-(0,-101) is 101, (0,0)-(0,150)
\* is 150, (60,80)-(0,150) is less than 100.
Positions == {Pos(0, 0), Pos(60, 80), Pos(0, 150), Pos(0, 0 - 101)}

\* The positions carried by frames of the streaming client: all within the
\* threshold of each other.
NetPositions == {Pos(0, 0), Pos(60, 80)}

EmptyMap == [k \in {} |-> 0]

\* All aircraft-batch payloads over the callsigns cs and the positions ps.
BatchesOver(cs, ps) ==
    UNION {[d -> {Info(p) : p \in ps}] : d \in SUBSET cs}

SingleBatches == BatchesOver({"ABC123"}, Positions) \ {EmptyMap}

NetBatches == BatchesOver(Callsigns, NetPositions)

FlightPlans == [callsign : Callsigns, route : {"DCT"}]

ControllerLists == {<<[airport |-> "IRFD", queue |-> <<"a", "a">>]>>}

AtisSet == [airport : {"IRFD"}, letter : {"A"}]

\* Aircraft payloads that do not parse as a map of AircraftInfo: the entries
\* of good match the schema, the entries of the callsigns in bad do not.
PartialBatches ==
    {[good |-> [c \in {"ABC123"} |-> Info(Pos(60, 80))], bad |-> {"XYZ1"}],
     [good |-> [c \in {"XYZ1"} |-> Info(Pos(0, 0))], bad |-> {"ABC123"}]}

\* A text frame: env tells whether the envelope parses, t is its type
\* string, valid tells whether the payload d matches the schema of t.
Frame(t, env, valid, d) == [d |-> d, t |-> t, env |-> env, valid |-> valid]

AircraftTypes == {"ACFT_DATA", "EVENT_ACFT_DATA"}

FlightPlanTypes == {"FLIGHT_PLAN", "EVENT_FLIGHT_PLAN"}

EventTypes == {"EVENT_ACFT_DATA", "EVENT_FLIGHT_PLAN"}

KnownTypes == AircraftTypes \cup FlightPlanTypes \cup {"CONTROLLERS", "ATIS"}

\* Frames whose envelope does not parse, or whose payload does not match
\* the declared type, or whose type is not known.
OtherFrames ==
    {Frame("", FALSE, FALSE, <<>>), Frame("PILOT_CHAT", TRUE, TRUE, <<>>)}
    \cup {Frame(t, TRUE, FALSE, <<>>) : t \in KnownTypes \ AircraftTypes}
    \cup {Frame(t, TRUE, FALSE, b) : t \in AircraftTypes, b \in PartialBatches}

\* The frames the whole-client specification feeds the read loop.
ClientBatch == [c \in {"ABC123"} |-> Info(Pos(0, 0))]

ClientPlan == [callsign |-> "ABC123", route |-> "DCT"]

ClientOtherFrames ==
    {Frame("", FALSE, FALSE, <<>>), Frame("PILOT_CHAT", TRUE, TRUE, <<>>)}

HistoryLengths == 0..MaxHistoryLength

\* A RadarConfig, reduced to the fields the modelled code reads.
RadarConfig(history_length, enable_event_server, reconnect_delay_secs) ==
    [display |-> [history_length |-> history_length],
     network |-> [enable_event_server |-> enable_event_server,
                  reconnect_delay_secs |-> reconnect_delay_secs]]

\* The configurations a store is constructed with in the history checks.
Configs == {RadarConfig(h, FALSE, DefaultReconnectDelay) : h \in HistoryLengths}

\* The configurations the watcher may load from config.toml.
ReloadConfigs ==
    {RadarConfig(DefaultHistoryLength, FALSE, DefaultReconnectDelay),
     RadarConfig(DefaultHistoryLength, TRUE, 0)}

----------------------------------------------------------------------------
(* types.rs: TrackedAircraft *)

TrackedAircraft_new(callsign, info) ==
    [callsign |-> callsign, info |-> info, emergency_flash |-> FALSE,
     flight_plan |-> <<>>, history |-> <<>>, last_update |-> now]

\* Variant: the threshold itself already counts as having moved.
should_add_history_inclusive(tracked, new_info) ==
    LET dx == new_info.position.x - tracked.info.position.x
        dy == new_info.position.y - tracked.info.position.y
    IN  dx * dx + dy * dy >= HistoryThreshold * HistoryThreshold

should_add_history(tracked, new_info) ==
    LET dx == new_info.position.x - tracked.info.position.x
        dy == new_info.position.y - tracked.info.position.y
    IN  dx * dx + dy * dy > HistoryThreshold * HistoryThreshold

\* Variant: the history is never trimmed.
TrackedAircraft_update_untrimmed(tracked, info, max_history) ==
    LET add == should_add_history(tracked, info)
        pushed == IF add
                  THEN Append(tracked.history,
                              <<tracked.info.position.x,
                                tracked.info.position.y,
                                tracked.last_update>>)
                  ELSE tracked.history
    IN  [tracked EXCEPT !.history = pushed,
                        !.info = info,
                        !.last_update = now]

\* Variant: the point recorded is the incoming position, not the one held.
TrackedAircraft_update_pushes_new(tracked, info, max_history) ==
    LET add == should_add_history(tracked, info)
        pushed == IF add
                  THEN Append(tracked.history,
                              <<info.position.x, info.position.y, now>>)
                  ELSE tracked.history
        trimmed == IF add /\ Len(pushed) > max_history
                   THEN Tail(pushed)
                   ELSE pushed
    IN  [tracked EXCEPT !.history = trimmed,
                        !.info = info,
                        !.last_update = now]

\* Variant: the history is trimmed at the back instead of the front.
TrackedAircraft_update_trims_back(tracked, info, max_history) ==
    LET add == should_add_history(tracked, info)
        pushed == IF add
                  THEN Append(tracked.history,
                              <<tracked.info.position.x,
                                tracked.info.position.y,
                                tracked.last_update>>)
                  ELSE tracked.history
        trimmed == IF add /\ Len(pushed) > max_history
                   THEN SubSeq(pushed, 1, Len(pushed) - 1)
                   ELSE pushed
    IN  [tracked EXCEPT !.history = trimmed,
                        !.info = info,
                        !.last_update = now]

\* Variant: a new sample detaches the flight plan.
TrackedAircraft_update_drops_plan(tracked, info, max_history) ==
    LET add == should_add_history(tracked, info)
        pushed == IF add
                  THEN Append(tracked.history,
                              <<tracked.info.position.x,
                                tracked.info.position.y,
                                tracked.last_update>>)
                  ELSE tracked.history
        trimmed == IF add /\ Len(pushed) > max_history
                   THEN Tail(pushed)
                   ELSE pushed
    IN  [tracked EXCEPT !.history = trimmed,
                        !.info = info,
                        !.last_update = now,
                        !.flight_plan = <<>>]

TrackedAircraft_update(tracked, info, max_history) ==
    LET add == should_add_history(tracked, info)
        pushed == IF add
                  THEN Append(tracked.history,
                              <<tracked.info.position.x,
                                tracked.info.position.y,
                                tracked.last_update>>)
                  ELSE tracked.history
        trimmed == IF add /\ Len(pushed) > max_history
                   THEN Tail(pushed)
                   ELSE pushed
    IN  [tracked EXCEPT !.history = trimmed,
                        !.info = info,
                        !.last_update = now]

----------------------------------------------------------------------------
(* state.rs: RadarState *)

DefaultConfig ==
    RadarConfig(DefaultHistoryLength, FALSE, DefaultReconnectDelay)

DefaultConnectionStatus ==
    [aircraft_count |-> 0, event_aircraft_count |-> 0,
     last_data_received |-> <<>>, websocket_connected |-> FALSE]

\* Variant: a tracked aircraft keeps the sample it has (or_insert only).
update_aircraft_batch_keeps_first(aircraft_map) ==
    /\ aircraft' =
          [c \in DOMAIN aircraft \cup DOMAIN aircraft_map |->
              IF c \in DOMAIN aircraft
              THEN aircraft[c]
              ELSE TrackedAircraft_new(c, aircraft_map[c])]
    /\ status' = [status EXCEPT
                     !.aircraft_count = Cardinality(DOMAIN aircraft'),
                     !.last_data_received = <<now>>]
    /\ UNCHANGED <<controllers, atis, config>>

update_aircraft_batch(aircraft_map) ==
    LET max_history == config.display.history_length
    IN  /\ aircraft' =
              [c \in DOMAIN aircraft \cup DOMAIN aircraft_map |->
                  IF c \in DOMAIN aircraft_map
                  THEN IF c \in DOMAIN aircraft
                       THEN TrackedAircraft_update(aircraft[c],
                                aircraft_map[c], max_history)
                       ELSE TrackedAircraft_new(c, aircraft_map[c])
                  ELSE aircraft[c]]
        /\ status' = [status EXCEPT
                         !.aircraft_count = Cardinality(DOMAIN aircraft'),
                         !.last_data_received = <<now>>]
        /\ UNCHANGED <<controllers, atis, config>>

\* Variant: a plan for an unknown callsign creates the aircraft.
\* Variant: an aircraft exactly max_age_secs seconds old is kept.
clear_stale_aircraft_exclusive(max_age_secs) ==
    /\ aircraft' =
          [c \in {k \in DOMAIN aircraft :
                    now - aircraft[k].last_update <= max_age_secs * MillisPerSecond}
              |-> aircraft[c]]
    /\ UNCHANGED <<controllers, atis, config, status>>

\* retain keeps the aircraft updated less than max_age_secs seconds ago.
clear_stale_aircraft(max_age_secs) ==
    /\ aircraft' =
          [c \in {k \in DOMAIN aircraft :
                    now - aircraft[k].last_update < max_age_secs * MillisPerSecond}
              |-> aircraft[c]]
    /\ UNCHANGED <<controllers, atis, config, status>>

\* Variant: a plan for an unknown callsign creates the aircraft.
update_flight_plan_creates(flight_plan) ==
    /\ aircraft' =
          [c \in DOMAIN aircraft \cup {flight_plan.callsign} |->
              IF c = flight_plan.callsign
              THEN IF c \in DOMAIN aircraft
                   THEN [aircraft[c] EXCEPT !.flight_plan = <<flight_plan>>]
                   ELSE [TrackedAircraft_new(c, Info(Pos(0, 0))) EXCEPT
                            !.flight_plan = <<flight_plan>>]
              ELSE aircraft[c]]
    /\ UNCHANGED <<controllers, atis, config, status>>

update_flight_plan(flight_plan) ==
    /\ aircraft' =
          IF flight_plan.callsign \in DOMAIN aircraft
          THEN [aircraft EXCEPT
                   ![flight_plan.callsign].flight_plan = <<flight_plan>>]
          ELSE aircraft
    /\ UNCHANGED <<controllers, atis, config, status>>

\* Variant: the positions are appended to the stored list.
update_controllers_appends(positions) ==
    /\ controllers' = controllers \o positions
    /\ UNCHANGED <<aircraft, atis, config, status>>

update_controllers(positions) ==
    /\ controllers' = positions
    /\ UNCHANGED <<aircraft, atis, config, status>>

\* Variant: an airport keeps the first ATIS written for it.
update_atis_keeps_first(a) ==
    /\ atis' = [k \in DOMAIN atis \cup {a.airport} |->
                  IF k \in DOMAIN atis THEN atis[k] ELSE a]
    /\ UNCHANGED <<aircraft, controllers, config, status>>

update_atis(a) ==
    /\ atis' = [k \in DOMAIN atis \cup {a.airport} |->
                  IF k = a.airport THEN a ELSE atis[k]]
    /\ UNCHANGED <<aircraft, controllers, config, status>>

\* Option<TrackedAircraft>: <<>> is None, <<v>> is Some(v).
get_aircraft_by_callsign(callsign) ==
    IF callsign \in DOMAIN aircraft THEN <<aircraft[callsign]>> ELSE <<>>

\* Option<Atis>.
get_atis(airport) ==
    IF airport \in DOMAIN atis THEN <<atis[airport]>> ELSE <<>>

update_config(c) ==
    /\ config' = c
    /\ UNCHANGED <<aircraft, controllers, atis, status>>

set_websocket_connected(connected) ==
    /\ status' = [status EXCEPT !.websocket_connected = connected]
    /\ UNCHANGED <<aircraft, controllers, atis, config>>

----------------------------------------------------------------------------
(* radar.rs: Projection *)

\* a / b rounded to the nearest integer, for b > 0.
RoundDiv(a, b) == (2 * a + b) \div (2 * b)

Clamp(v, lo, hi) == IF v < lo THEN lo ELSE IF v > hi THEN hi ELSE v

\* A screen length of n pixels.
Pixels(n) == n * PixelRes

\* A world length of n studs.
Studs(n) == n * StudRes

Projection_new(screen_width, screen_height) ==
    [screen_width |-> screen_width, screen_height |-> screen_height,
     center |-> <<0, 0>>, studs_per_pixel |-> Studs(DefaultScale)]

studs_to_screen(self, studs_x, studs_y) ==
    LET dx == studs_x - self.center[1]
        dy == studs_y - self.center[2]
    IN  <<RoundDiv(self.screen_width, 2)
              + RoundDiv(dx * PixelRes, self.studs_per_pixel),
          RoundDiv(self.screen_height, 2)
              + RoundDiv(dy * PixelRes, self.studs_per_pixel)>>

\* Variant: the offset from the screen centre is taken from the corner.
screen_to_studs_from_corner(self, screen_pos) ==
    LET dx == RoundDiv(screen_pos[1] * self.studs_per_pixel, PixelRes)
        dy == RoundDiv(screen_pos[2] * self.studs_per_pixel, PixelRes)
    IN  <<self.center[1] + dx, self.center[2] + dy>>

screen_to_studs(self, screen_pos) ==
    LET dx == RoundDiv((screen_pos[1] - RoundDiv(self.screen_width, 2))
                          * self.studs_per_pixel, PixelRes)
        dy == RoundDiv((screen_pos[2] - RoundDiv(self.screen_height, 2))
                          * self.studs_per_pixel, PixelRes)
    IN  <<self.center[1] + dx, self.center[2] + dy>>

pan(self, delta_screen) ==
    LET delta_studs_x == RoundDiv(delta_screen[1] * self.studs_per_pixel,
                                  PixelRes)
        delta_studs_y == RoundDiv(delta_screen[2] * self.studs_per_pixel,
                                  PixelRes)
    IN  [self EXCEPT !.center = <<self.center[1] - delta_studs_x,
                                  self.center[2] - delta_studs_y>>]

\* Variant: the scale is not clamped.
zoom_unclamped(self, delta, mouse_pos) ==
    LET zoom_factor == IF delta > 0 THEN ZoomInTenths ELSE ZoomOutTenths
        scaled == [self EXCEPT !.studs_per_pixel =
                      RoundDiv(self.studs_per_pixel * zoom_factor, 10)]
        studs_before == screen_to_studs(self, mouse_pos[1])
        studs_after == screen_to_studs(scaled, mouse_pos[1])
    IN  IF mouse_pos # <<>>
        THEN [scaled EXCEPT !.center =
                 <<self.center[1] + studs_before[1] - studs_after[1],
                   self.center[2] + studs_before[2] - studs_after[2]>>]
        ELSE scaled

\* delta > 0 zooms in; mouse_pos is <<>> or <<the anchor pixel>>.
zoom(self, delta, mouse_pos) ==
    LET zoom_factor == IF delta > 0 THEN ZoomInTenths ELSE ZoomOutTenths
        scaled == [self EXCEPT !.studs_per_pixel =
                      RoundDiv(self.studs_per_pixel * zoom_factor, 10)]
        studs_before == screen_to_studs(self, mouse_pos[1])
        studs_after == screen_to_studs(scaled, mouse_pos[1])
        moved == IF mouse_pos # <<>>
                 THEN [scaled EXCEPT !.center =
                          <<self.center[1] + studs_before[1] - studs_after[1],
                            self.center[2] + studs_before[2] - studs_after[2]>>]
                 ELSE scaled
    IN  [moved EXCEPT !.studs_per_pixel =
            Clamp(moved.studs_per_pixel, Studs(MinScale), Studs(MaxScale))]

update_screen_size(self, width, height) ==
    [self EXCEPT !.screen_width = width, !.screen_height = height]

----------------------------------------------------------------------------
(* radar.rs: RadarRenderer *)

\* The sample of one aircraft as the renderer reads it.
RenderInfo(p, heading, ground_speed, is_on_ground, is_emergency_occuring) ==
    [position |-> p, heading |-> heading, ground_speed |-> ground_speed,
     is_on_ground |-> is_on_ground,
     is_emergency_occuring |-> is_emergency_occuring]

\* One instruction given to the painter: the function that emitted it, the
\* shape, the aircraft, the colour and the screen position(s).
Draw(part, shape, callsign, color, pos, end) ==
    [callsign |-> callsign, part |-> part, shape |-> shape, color |-> color,
     pos |-> pos, end |-> end]

RECURSIVE Concat(_)
Concat(seqs) == IF seqs = <<>> THEN <<>> ELSE Head(seqs) \o Concat(Tail(seqs))

\* cos and sin of an angle in whole degrees, in thousandths.
CosMilli(deg) ==
    CASE deg % 360 = 0 -> 1000
      [] deg % 360 = 45 -> 707
      [] deg % 360 = 90 -> 0
      [] deg % 360 = 180 -> 0 - 1000
      [] deg % 360 = 270 -> 0
      [] deg % 360 = 315 -> 707

SinMilli(deg) ==
    CASE deg % 360 = 0 -> 0
      [] deg % 360 = 45 -> 707
      [] deg % 360 = 90 -> 1000
      [] deg % 360 = 180 -> 0
      [] deg % 360 = 270 -> 0 - 1000
      [] deg % 360 = 315 -> 0 - 707

\* v times the decimal fraction 0.d1 d2 ..., rounded at every digit.
RECURSIVE TimesFraction(_, _)
TimesFraction(v, digits) ==
    IF digits = <<>>
    THEN 0
    ELSE RoundDiv(v * Head(digits) + TimesFraction(v, Tail(digits)), 10)

\* v * m / 1000 for v >= 0, rounded.
TimesMilli(v, m) == (v \div 1000) * m + RoundDiv((v % 1000) * m, 1000)

\* Variant: an emergency symbol is drawn steadily.
target_color_steady(tracked, time_millis) ==
    IF tracked.info.is_emergency_occuring
    THEN "target_emergency"
    ELSE IF <<tracked.callsign>> = selected_aircraft
    THEN "target_selected"
    ELSE IF tracked.info.is_on_ground = <<TRUE>>
    THEN "ground"
    ELSE "target"

\* Variant: selection ranks above the emergency flash.
target_color_selected_first(tracked, time_millis) ==
    IF <<tracked.callsign>> = selected_aircraft
    THEN "target_selected"
    ELSE IF tracked.info.is_emergency_occuring
    THEN IF (time_millis \div FlashHalfPeriod) % 2 = 0
         THEN "target_emergency"
         ELSE "TRANSPARENT"
    ELSE IF tracked.info.is_on_ground = <<TRUE>>
    THEN "ground"
    ELSE "target"

\* The colour of the target symbol; time_millis >= 0.
target_color(tracked, time_millis) ==
    IF tracked.info.is_emergency_occuring
    THEN IF (time_millis \div FlashHalfPeriod) % 2 = 0
         THEN "target_emergency"
         ELSE "TRANSPARENT"
    ELSE IF <<tracked.callsign>> = selected_aircraft
    THEN "target_selected"
    ELSE IF tracked.info.is_on_ground = <<TRUE>>
    THEN "ground"
    ELSE "target"

render_target(proj, tracked, display, time_millis) ==
    LET pos == studs_to_screen(proj, Studs(tracked.info.position.x),
                               Studs(tracked.info.position.y))
        color == target_color(tracked, time_millis)
        heading_deg == tracked.info.heading - NorthOffset + 360
        heading_len == Pixels(TargetSize * display.target_scale * 2)
        heading_end == <<pos[1] + RoundDiv(CosMilli(heading_deg) * heading_len,
                                           1000),
                         pos[2] + RoundDiv(SinMilli(heading_deg) * heading_len,
                                           1000)>>
    IN  <<Draw("target", "closed_line", tracked.callsign, color, pos, pos),
          Draw("target", "line_segment", tracked.callsign, color, pos,
               heading_end)>>

render_history(proj, tracked) ==
    [i \in 1..Len(tracked.history) |->
        LET pos == studs_to_screen(proj, Studs(tracked.history[i][1]),
                                   Studs(tracked.history[i][2]))
        IN  Draw("history", "circle_filled", tracked.callsign, "history",
                 pos, pos)]

\* The world distance covered in vector_minutes at ground_speed.
distance_studs(ground_speed, vector_minutes) ==
    TimesFraction(Studs(ground_speed) * (vector_minutes * SecondsPerMinute),
                  StudsPerKnotPerSec)

\* Variant: the heading is taken as a mathematical angle from +x.
predicted_position_unrotated(tracked, vector_minutes) ==
    LET heading_deg == tracked.info.heading
        d == distance_studs(tracked.info.ground_speed, vector_minutes)
    IN  <<Studs(tracked.info.position.x)
              + TimesMilli(d, CosMilli(heading_deg)),
          Studs(tracked.info.position.y)
              + TimesMilli(d, SinMilli(heading_deg))>>

\* The world point the aircraft reaches in vector_minutes.
predicted_position(tracked, vector_minutes) ==
    LET heading_deg == tracked.info.heading - NorthOffset + 360
        d == distance_studs(tracked.info.ground_speed, vector_minutes)
    IN  <<Studs(tracked.info.position.x)
              + TimesMilli(d, CosMilli(heading_deg)),
          Studs(tracked.info.position.y)
              + TimesMilli(d, SinMilli(heading_deg))>>

render_vector(proj, tracked, display) ==
    LET current_pos == studs_to_screen(proj, Studs(tracked.info.position.x),
                                       Studs(tracked.info.position.y))
        predicted == predicted_position(tracked, display.vector_minutes)
        predicted_pos == studs_to_screen(proj, predicted[1], predicted[2])
    IN  <<Draw("vector", "line_segment", tracked.callsign, "vector",
               current_pos, predicted_pos)>>

render_data_tag(proj, tracked, tag_config) ==
    LET pos == studs_to_screen(proj, Studs(tracked.info.position.x),
                               Studs(tracked.info.position.y))
        tag_pos == <<pos[1] + Pixels(tag_config.offset[1]),
                     pos[2] + Pixels(tag_config.offset[2])>>
        lines == <<tag_config.line1, tag_config.line2>>
                     \o tag_config.line3 \o tag_config.line4
    IN  [i \in 1..Len(lines) |->
            LET line_pos == <<tag_pos[1],
                              tag_pos[2]
                                  + Pixels((i - 1) * tag_config.line_spacing)>>
            IN  Draw("tag", "text", tracked.callsign, "tag_text", line_pos,
                     line_pos)]

\* Variant: each aircraft is drawn completely before the next one.
render_mixed(proj, aircraft_map, order, display, tag_config, time_millis) ==
    Concat([i \in 1..Len(order) |->
        (IF display.show_history
         THEN render_history(proj, aircraft_map[order[i]]) ELSE <<>>)
        \o (IF display.show_vectors
            THEN render_vector(proj, aircraft_map[order[i]], display)
            ELSE <<>>)
        \o render_target(proj, aircraft_map[order[i]], display, time_millis)
        \o (IF display.show_tags
            THEN render_data_tag(proj, aircraft_map[order[i]], tag_config)
            ELSE <<>>)])

\* The instructions of one frame; order is the order in which the map hands
\* out its values, the same in each of the four loops.
render(proj, aircraft_map, order, display, tag_config, time_millis) ==
    (IF display.show_history
     THEN Concat([i \in 1..Len(order) |->
                     render_history(proj, aircraft_map[order[i]])])
     ELSE <<>>)
    \o (IF display.show_vectors
        THEN Concat([i \in 1..Len(order) |->
                        render_vector(proj, aircraft_map[order[i]], display)])
        ELSE <<>>)
    \o Concat([i \in 1..Len(order) |->
                  render_target(proj, aircraft_map[order[i]], display,
                                time_millis)])
    \o (IF display.show_tags
        THEN Concat([i \in 1..Len(order) |->
                        render_data_tag(proj, aircraft_map[order[i]],
                                        tag_config)])
        ELSE <<>>)

----------------------------------------------------------------------------
(* radar.rs: RadarRenderer::format_tag_line *)

\* A string is the sequence of its characters.
Str_callsign == <<"{", "c", "a", "l", "l", "s", "i", "g", "n", "}">>

Str_altitude03 ==
    <<"{", "a", "l", "t", "i", "t", "u", "d", "e", ":", "0", "3", "}">>

Str_altitude == <<"{", "a", "l", "t", "i", "t", "u", "d", "e", "}">>

Str_speed03 == <<"{", "s", "p", "e", "e", "d", ":", "0", "3", "}">>

Str_speed == <<"{", "s", "p", "e", "e", "d", "}">>

Str_gs03 == <<"{", "g", "s", ":", "0", "3", "}">>

Str_gs == <<"{", "g", "s", "}">>

Str_heading03 ==
    <<"{", "h", "e", "a", "d", "i", "n", "g", ":", "0", "3", "}">>

Str_heading == <<"{", "h", "e", "a", "d", "i", "n", "g", "}">>

Str_type == <<"{", "t", "y", "p", "e", "}">>

\* str::replace: every non-overlapping match of from, left to right.
RECURSIVE Replace(_, _, _)
Replace(s, from, to) ==
    IF Len(s) < Len(from)
    THEN s
    ELSE IF SubSeq(s, 1, Len(from)) = from
    THEN to \o Replace(SubSeq(s, Len(from) + 1, Len(s)), from, to)
    ELSE <<Head(s)>> \o Replace(Tail(s), from, to)

\* Division truncating toward zero, as the cast of a quotient to i32.
TruncDiv(a, b) == IF a >= 0 THEN a \div b ELSE 0 - ((0 - a) \div b)

Digit(d) == <<"0", "1", "2", "3", "4", "5", "6", "7", "8", "9">>[d + 1]

RECURSIVE Digits(_)
Digits(n) == IF n < 10 THEN <<Digit(n)>>
                       ELSE Digits(n \div 10) \o <<Digit(n % 10)>>

\* i32::to_string.
to_string(n) == IF n < 0 THEN <<"-">> \o Digits(0 - n) ELSE Digits(n)

RECURSIVE Zeros(_)
Zeros(k) == IF k <= 0 THEN <<>> ELSE <<"0">> \o Zeros(k - 1)

\* format!("{:03}", n): zeros after the sign up to a width of three.
format_03(n) ==
    IF n < 0
    THEN <<"-">> \o Zeros(2 - Len(Digits(0 - n))) \o Digits(0 - n)
    ELSE Zeros(3 - Len(Digits(n))) \o Digits(n)

\* Variant: the altitude is printed in feet.
format_tag_line_feet(template, tracked) ==
    LET altitude == tracked.info.altitude
        speed == tracked.info.speed
        gs == tracked.info.ground_speed
        heading == tracked.info.heading
        r1 == Replace(template, Str_callsign, tracked.callsign)
        r2 == Replace(r1, Str_altitude03, format_03(altitude))
        r3 == Replace(r2, Str_altitude, to_string(altitude))
        r4 == Replace(r3, Str_speed03, format_03(speed))
        r5 == Replace(r4, Str_speed, to_string(speed))
        r6 == Replace(r5, Str_gs03, format_03(gs))
        r7 == Replace(r6, Str_gs, to_string(gs))
        r8 == Replace(r7, Str_heading03, format_03(heading))
        r9 == Replace(r8, Str_heading, to_string(heading))
    IN  Replace(r9, Str_type, tracked.info.aircraft_type)

format_tag_line(template, tracked) ==
    LET altitude == TruncDiv(tracked.info.altitude, 100)
        speed == tracked.info.speed
        gs == tracked.info.ground_speed
        heading == tracked.info.heading
        r1 == Replace(template, Str_callsign, tracked.callsign)
        r2 == Replace(r1, Str_altitude03, format_03(altitude))
        r3 == Replace(r2, Str_altitude, to_string(altitude))
        r4 == Replace(r3, Str_speed03, format_03(speed))
        r5 == Replace(r4, Str_speed, to_string(speed))
        r6 == Replace(r5, Str_gs03, format_03(gs))
        r7 == Replace(r6, Str_gs, to_string(gs))
        r8 == Replace(r7, Str_heading03, format_03(heading))
        r9 == Replace(r8, Str_heading, to_string(heading))
    IN  Replace(r9, Str_type, tracked.info.aircraft_type)

\* One data-tag line is formatted for one aircraft.
FormatTagLine(template, tracked) ==
    /\ lastOp' = [tracked |-> tracked, op |-> "format_tag_line",
                  arg |-> template,
                  result |-> format_tag_line(template, tracked)]
    /\ UNCHANGED <<storeVars, now, netVars, fresh, sideVars>>

----------------------------------------------------------------------------
(* ui.rs: RadarApp::render_radar and RadarApp::handle_radar_input *)

\* The orders in which a map over the keys S can hand out its values.
Orders(S) ==
    {o \in [1..Cardinality(S) -> S] :
        \A i, j \in 1..Cardinality(S) : i # j => o[i] # o[j]}

\* The display section of the configuration copy of the UI.
Display(show_history, show_vectors, show_tags) ==
    [target_scale |-> 1, vector_minutes |-> DefaultVectorMinutes,
     show_history |-> show_history, show_vectors |-> show_vectors,
     show_tags |-> show_tags]

\* The default, each layer switched off alone, and all three off.
Displays ==
    {Display(TRUE, TRUE, TRUE), Display(FALSE, TRUE, TRUE),
     Display(TRUE, FALSE, TRUE), Display(TRUE, TRUE, FALSE),
     Display(FALSE, FALSE, FALSE)}

\* The data_tags section: the default with a third line configured.
TagConfigs ==
    [offset : {<<15, 0 - 10>>}, line_spacing : {DefaultLineSpacing},
     line1 : {"{callsign}"}, line2 : {"F{altitude:03} {gs:03}KT"},
     line3 : {<<"{type}">>}, line4 : {<<>>}]

\* The animation clock at the frames drawn, in milliseconds since the start.
FrameTimes == {0, 500}

\* One frame of the radar panel: the snapshot of the aircraft is drawn.
Render(order, display, tag_config, time_millis) ==
    /\ painter' = render(projection, aircraft, order, display, tag_config,
                         time_millis)
    /\ lastOp' = [display |-> display, time_millis |-> time_millis,
                  tag_config |-> tag_config, order |-> order,
                  op |-> "render"]
    /\ UNCHANGED <<storeVars, now, netVars, fresh, watchPc, lockVars,
                   projection, selected_aircraft, moves>>

\* Squared distance of two screen positions.
DistSq(a, b) == (a[1] - b[1]) * (a[1] - b[1]) + (a[2] - b[2]) * (a[2] - b[2])

\* A click on the panel: the closest aircraft within the click radius is
\* selected, any of them when several are equally close; none otherwise.
Click(screen_pos) ==
    LET at == <<Pixels(screen_pos[1]), Pixels(screen_pos[2])>>
        dist(c) == DistSq(at, studs_to_screen(projection,
                                  Studs(aircraft[c].info.position.x),
                                  Studs(aircraft[c].info.position.y)))
        near == {c \in DOMAIN aircraft :
                    dist(c) < Pixels(ClickThreshold) * Pixels(ClickThreshold)}
        closest == {c \in near : \A d \in near : dist(c) <= dist(d)}
    IN  /\ IF closest # {}
           THEN \E c \in closest : selected_aircraft' = <<c>>
           ELSE selected_aircraft' = <<>>
        /\ lastOp' = [op |-> "click", arg |-> screen_pos]
        /\ UNCHANGED <<storeVars, now, netVars, fresh, watchPc, lockVars,
                       projection, painter, moves>>

\* The sizes of the radar panel, in pixels.
ScreenSizes == {<<1920, 1080>>, <<801, 600>>}

\* Pointer positions and drag deltas, in pixels.
MousePositions == {<<0, 0>>, <<1700, 300>>}

DragDeltas == {<<40, 0 - 25>>}

UpdateScreenSize(size) ==
    /\ projection' = update_screen_size(projection, Pixels(size[1]),
                                        Pixels(size[2]))
    /\ projection' # projection
    /\ lastOp' = [op |-> "update_screen_size"]
    /\ UNCHANGED <<storeVars, now, netVars, fresh, watchPc, lockVars,
                   selected_aircraft, painter, moves>>

\* A drag with the middle button or with shift held.
Pan(delta) ==
    /\ moves < MaxMoves
    /\ moves' = moves + 1
    /\ projection' = pan(projection, <<Pixels(delta[1]), Pixels(delta[2])>>)
    /\ lastOp' = [op |-> "pan", arg |-> delta, before |-> projection]
    /\ UNCHANGED <<storeVars, now, netVars, fresh, watchPc, lockVars,
                   selected_aircraft, painter>>

\* The scroll wheel, with the pointer over the panel or not.
Zoom(delta, mouse_pos) ==
    /\ moves < MaxMoves
    /\ moves' = moves + 1
    /\ projection' = zoom(projection, delta, mouse_pos)
    /\ lastOp' = [mouse_pos |-> mouse_pos, op |-> "zoom", arg |-> delta,
                  before |-> projection]
    /\ UNCHANGED <<storeVars, now, netVars, fresh, watchPc, lockVars,
                   selected_aircraft, painter>>

----------------------------------------------------------------------------
(* The clock *)

Tick ==
    /\ now < MaxTicks * TickMs
    /\ now' = now + TickMs
    /\ lastOp' = [op |-> "tick"]
    /\ UNCHANGED storeVars
    /\ UNCHANGED netVars
    /\ UNCHANGED fresh
    /\ UNCHANGED sideVars

----------------------------------------------------------------------------
(* Direct calls of the store *)

\* The callsigns that are fresh after the batch aircraft_map is applied.
FreshAfter(aircraft_map) ==
    (DOMAIN aircraft_map \ DOMAIN aircraft) \cup (fresh \ DOMAIN aircraft_map)

CallUpdateAircraftBatch(aircraft_map) ==
    /\ update_aircraft_batch(aircraft_map)
    /\ fresh' = FreshAfter(aircraft_map)
    /\ lastOp' = [fresh |-> fresh, op |-> "update_aircraft_batch",
                  arg |-> aircraft_map, before |-> aircraft]
    /\ UNCHANGED now
    /\ UNCHANGED netVars
    /\ UNCHANGED sideVars

CallUpdateConfig(c) ==
    /\ update_config(c)
    /\ lastOp' = [op |-> "update_config", arg |-> c, before |-> config]
    /\ UNCHANGED <<now, fresh>>
    /\ UNCHANGED netVars
    /\ UNCHANGED sideVars

CallUpdateAtis(a) ==
    /\ update_atis(a)
    /\ lastOp' = [op |-> "update_atis", arg |-> a, before |-> atis]
    /\ UNCHANGED <<now, fresh>>
    /\ UNCHANGED netVars
    /\ UNCHANGED sideVars

CallGetAircraftByCallsign(callsign) ==
    /\ lastOp' = [op |-> "get_aircraft_by_callsign", arg |-> callsign,
                  result |-> get_aircraft_by_callsign(callsign),
                  before |-> <<aircraft, controllers, atis, config, status>>]
    /\ UNCHANGED <<storeVars, now, fresh>>
    /\ UNCHANGED netVars
    /\ UNCHANGED sideVars

\* Variant: a read of an unknown airport leaves an empty entry behind.
CallGetAtis_inserts(airport) ==
    /\ lastOp' = [op |-> "get_atis", arg |-> airport,
                  result |-> get_atis(airport),
                  before |-> <<aircraft, controllers, atis, config, status>>]
    /\ atis' = [k \in DOMAIN atis \cup {airport} |->
                  IF k \in DOMAIN atis THEN atis[k]
                  ELSE [airport |-> airport, letter |-> ""]]
    /\ UNCHANGED <<aircraft, controllers, config, status, now, fresh>>
    /\ UNCHANGED netVars
    /\ UNCHANGED sideVars

CallGetAtis(airport) ==
    /\ lastOp' = [op |-> "get_atis", arg |-> airport,
                  result |-> get_atis(airport),
                  before |-> <<aircraft, controllers, atis, config, status>>]
    /\ UNCHANGED <<storeVars, now, fresh>>
    /\ UNCHANGED netVars
    /\ UNCHANGED sideVars

CallUpdateFlightPlan(flight_plan) ==
    /\ update_flight_plan(flight_plan)
    /\ lastOp' = [op |-> "update_flight_plan", arg |-> flight_plan]
    /\ UNCHANGED <<now, netVars, fresh, sideVars>>

CallUpdateControllers(positions) ==
    /\ update_controllers(positions)
    /\ lastOp' = [op |-> "update_controllers", arg |-> positions,
                  before |-> controllers]
    /\ UNCHANGED <<now, netVars, fresh, sideVars>>

CallClearStaleAircraft(max_age_secs) ==
    /\ clear_stale_aircraft(max_age_secs)
    /\ fresh' = fresh \cap DOMAIN aircraft'
    /\ lastOp' = [op |-> "clear_stale_aircraft", arg |-> max_age_secs,
                  before |-> aircraft]
    /\ UNCHANGED <<now, netVars, sideVars>>

----------------------------------------------------------------------------
(* network.rs: NetworkManager::handle_message *)

\* Variant: the entries of an aircraft payload that match the schema are
\* applied although the payload as a whole does not parse.
handle_message_partial(frame, result) ==
    IF ~frame.env
    THEN result = "Err" /\ UNCHANGED storeVars
    ELSE IF frame.t = "ACFT_DATA"
    THEN IF frame.valid
         THEN result = "Ok" /\ update_aircraft_batch(frame.d)
         ELSE result = "Err" /\ update_aircraft_batch(frame.d.good)
    ELSE IF frame.t = "EVENT_ACFT_DATA"
    THEN IF config.network.enable_event_server
         THEN IF frame.valid
              THEN result = "Ok" /\ update_aircraft_batch(frame.d)
              ELSE result = "Err" /\ update_aircraft_batch(frame.d.good)
         ELSE result = "Ok" /\ UNCHANGED storeVars
    ELSE IF frame.t \in {"FLIGHT_PLAN", "EVENT_FLIGHT_PLAN"}
    THEN IF frame.valid
         THEN result = "Ok" /\ update_flight_plan(frame.d)
         ELSE result = "Err" /\ UNCHANGED storeVars
    ELSE IF frame.t = "CONTROLLERS"
    THEN IF frame.valid
         THEN result = "Ok" /\ update_controllers(frame.d)
         ELSE result = "Err" /\ UNCHANGED storeVars
    ELSE IF frame.t = "ATIS"
    THEN IF frame.valid
         THEN result = "Ok" /\ update_atis(frame.d)
         ELSE result = "Err" /\ UNCHANGED storeVars
    ELSE result = "Ok" /\ UNCHANGED storeVars

\* Variant: a type string without an arm is an error.
handle_message_rejects_unknown(frame, result) ==
    IF ~frame.env
    THEN result = "Err" /\ UNCHANGED storeVars
    ELSE IF frame.t = "ACFT_DATA"
    THEN IF frame.valid
         THEN result = "Ok" /\ update_aircraft_batch(frame.d)
         ELSE result = "Err" /\ UNCHANGED storeVars
    ELSE IF frame.t = "EVENT_ACFT_DATA"
    THEN IF config.network.enable_event_server
         THEN IF frame.valid
              THEN result = "Ok" /\ update_aircraft_batch(frame.d)
              ELSE result = "Err" /\ UNCHANGED storeVars
         ELSE result = "Ok" /\ UNCHANGED storeVars
    ELSE IF frame.t \in {"FLIGHT_PLAN", "EVENT_FLIGHT_PLAN"}
    THEN IF frame.valid
         THEN result = "Ok" /\ update_flight_plan(frame.d)
         ELSE result = "Err" /\ UNCHANGED storeVars
    ELSE IF frame.t = "CONTROLLERS"
    THEN IF frame.valid
         THEN result = "Ok" /\ update_controllers(frame.d)
         ELSE result = "Err" /\ UNCHANGED storeVars
    ELSE IF frame.t = "ATIS"
    THEN IF frame.valid
         THEN result = "Ok" /\ update_atis(frame.d)
         ELSE result = "Err" /\ UNCHANGED storeVars
    ELSE result = "Err" /\ UNCHANGED storeVars

handle_message(frame, result) ==
    IF ~frame.env
    THEN result = "Err" /\ UNCHANGED storeVars
    ELSE IF frame.t = "ACFT_DATA"
    THEN IF frame.valid
         THEN result = "Ok" /\ update_aircraft_batch(frame.d)
         ELSE result = "Err" /\ UNCHANGED storeVars
    ELSE IF frame.t = "EVENT_ACFT_DATA"
    THEN IF config.network.enable_event_server
         THEN IF frame.valid
              THEN result = "Ok" /\ update_aircraft_batch(frame.d)
              ELSE result = "Err" /\ UNCHANGED storeVars
         ELSE result = "Ok" /\ UNCHANGED storeVars
    ELSE IF frame.t \in {"FLIGHT_PLAN", "EVENT_FLIGHT_PLAN"}
    THEN IF frame.valid
         THEN result = "Ok" /\ update_flight_plan(frame.d)
         ELSE result = "Err" /\ UNCHANGED storeVars
    ELSE IF frame.t = "CONTROLLERS"
    THEN IF frame.valid
         THEN result = "Ok" /\ update_controllers(frame.d)
         ELSE result = "Err" /\ UNCHANGED storeVars
    ELSE IF frame.t = "ATIS"
    THEN IF frame.valid
         THEN result = "Ok" /\ update_atis(frame.d)
         ELSE result = "Err" /\ UNCHANGED storeVars
    ELSE result = "Ok" /\ UNCHANGED storeVars

\* Whether handle_message applies the frame as an aircraft batch.
AppliesBatch(frame) ==
    /\ frame.env
    /\ frame.valid
    /\ \/ frame.t = "ACFT_DATA"
       \/ frame.t = "EVENT_ACFT_DATA" /\ config.network.enable_event_server

----------------------------------------------------------------------------
(* network.rs: NetworkManager::run and NetworkManager::connect_websocket *)

\* run: top of the loop, the configuration is read from the store.
RunGetConfig ==
    /\ pc = "top"
    /\ runConfig' = config
    /\ pc' = "connecting"
    /\ lastOp' = [op |-> "get_config", after |-> lastOp.op]
    /\ UNCHANGED <<storeVars, now, conn, kaPc, kaSeen, pings, fresh>>
    /\ UNCHANGED sideVars

\* connect_websocket: the handshake succeeds, the flag is set and the
\* keep-alive task of the connection is spawned.
ConnectOk ==
    /\ pc = "connecting"
    /\ conn < MaxConn
    /\ conn' = conn + 1
    /\ set_websocket_connected(TRUE)
    /\ kaPc' = [kaPc EXCEPT ![conn + 1] = "tick"]
    /\ pc' = "reading"
    /\ lastOp' = [op |-> "connect_ok"]
    /\ UNCHANGED <<now, runConfig, kaSeen, pings, fresh>>
    /\ UNCHANGED sideVars

\* connect_websocket: connect_async fails and the error is returned.
ConnectFail ==
    /\ pc = "connecting"
    /\ pc' = "failed"
    /\ lastOp' = [op |-> "connect_failed"]
    /\ UNCHANGED <<storeVars, now, runConfig, conn, kaPc, kaSeen, pings, fresh>>
    /\ UNCHANGED sideVars

\* Variant: an error of handle_message is propagated and ends the read loop.
ReadText_fatal(frame) ==
    /\ pc = "reading"
    /\ \E result \in {"Ok", "Err"} :
          /\ handle_message(frame, result)
          /\ lastOp' = [fresh |-> fresh, op |-> "handle_message",
                        result |-> result, before |-> storeVars,
                        frame |-> frame]
          /\ pc' = IF result = "Err" THEN "closed" ELSE pc
    /\ fresh' = IF AppliesBatch(frame) THEN FreshAfter(frame.d) ELSE fresh
    /\ UNCHANGED <<now, runConfig, conn, kaPc, kaSeen, pings>>
    /\ UNCHANGED sideVars

\* The read loop receives a text frame and hands it to handle_message.
ReadText(frame) ==
    /\ pc = "reading"
    /\ \E result \in {"Ok", "Err"} :
          /\ handle_message(frame, result)
          /\ lastOp' = [fresh |-> fresh, op |-> "handle_message",
                        result |-> result, before |-> storeVars,
                        frame |-> frame]
    /\ fresh' = IF AppliesBatch(frame) THEN FreshAfter(frame.d) ELSE fresh
    /\ UNCHANGED <<now, netVars>>
    /\ UNCHANGED sideVars

\* The read loop receives a ping, pong or binary frame.
ReadOther ==
    /\ pc = "reading"
    /\ lastOp' = [op |-> "read_other"]
    /\ UNCHANGED <<storeVars, now, netVars, fresh>>
    /\ UNCHANGED sideVars

\* The read loop ends: a close frame, a read error or the end of the stream.
ReadEnd(cause) ==
    /\ pc = "reading"
    /\ pc' = "closed"
    /\ lastOp' = [op |-> "read_end", cause |-> cause]
    /\ UNCHANGED <<storeVars, now, runConfig, conn, kaPc, kaSeen, pings, fresh>>
    /\ UNCHANGED sideVars

\* Variant: the flag is left as it is when connect_websocket returns.
RunDisconnected_keeps_flag ==
    /\ pc \in {"failed", "closed"}
    /\ pc' = "sleeping"
    /\ lastOp' = [op |-> "set_disconnected"]
    /\ UNCHANGED <<storeVars, now, runConfig, conn, kaPc, kaSeen, pings, fresh>>
    /\ UNCHANGED sideVars

\* run: connect_websocket has returned, the flag is reset.
RunDisconnected ==
    /\ pc \in {"failed", "closed"}
    /\ set_websocket_connected(FALSE)
    /\ pc' = "sleeping"
    /\ lastOp' = [op |-> "set_disconnected"]
    /\ UNCHANGED <<now, runConfig, conn, kaPc, kaSeen, pings, fresh>>
    /\ UNCHANGED sideVars

\* Variant: the loop is left after the delay.
SleepDone_gives_up ==
    /\ pc = "sleeping"
    /\ pc' = "stopped"
    /\ lastOp' = [op |-> "sleep_done",
                  delay |-> runConfig.network.reconnect_delay_secs]
    /\ UNCHANGED <<storeVars, now, runConfig, conn, kaPc, kaSeen, pings, fresh>>
    /\ UNCHANGED sideVars

\* run: the reconnect delay of the configuration read at the top elapses.
SleepDone ==
    /\ pc = "sleeping"
    /\ pc' = "top"
    /\ lastOp' = [op |-> "sleep_done",
                  delay |-> runConfig.network.reconnect_delay_secs]
    /\ UNCHANGED <<storeVars, now, runConfig, conn, kaPc, kaSeen, pings, fresh>>
    /\ UNCHANGED sideVars

----------------------------------------------------------------------------
(* network.rs: the keep-alive task spawned by connect_websocket *)

\* Variant: the probe is sent on every tick, whatever the flag says.
KaTick_ignores_flag(i) ==
    /\ kaPc[i] = "tick"
    /\ kaSeen' = [kaSeen EXCEPT ![i] = status.websocket_connected]
    /\ kaPc' = [kaPc EXCEPT ![i] = "send"]
    /\ lastOp' = [pings |-> pings[i], op |-> "ka_tick", task |-> i]
    /\ UNCHANGED <<storeVars, now, pc, runConfig, conn, pings, fresh>>
    /\ UNCHANGED sideVars

\* interval.tick() returns and the task reads the connected flag.
KaTick(i) ==
    /\ kaPc[i] = "tick"
    /\ kaSeen' = [kaSeen EXCEPT ![i] = status.websocket_connected]
    /\ kaPc' = [kaPc EXCEPT ![i] = IF status.websocket_connected
                                   THEN "send" ELSE "done"]
    /\ lastOp' = [pings |-> pings[i], op |-> "ka_tick", task |-> i]
    /\ UNCHANGED <<storeVars, now, pc, runConfig, conn, pings, fresh>>
    /\ UNCHANGED sideVars

\* write.send(Ping) succeeds.
KaSendOk(i) ==
    /\ kaPc[i] = "send"
    /\ pings[i] < MaxPings
    /\ pings' = [pings EXCEPT ![i] = @ + 1]
    /\ kaPc' = [kaPc EXCEPT ![i] = "tick"]
    /\ lastOp' = [op |-> "ka_send_ok", task |-> i]
    /\ UNCHANGED <<storeVars, now, pc, runConfig, conn, kaSeen, fresh>>
    /\ UNCHANGED sideVars

\* write.send(Ping) fails.
KaSendFail(i) ==
    /\ kaPc[i] = "send"
    /\ kaPc' = [kaPc EXCEPT ![i] = "done"]
    /\ lastOp' = [op |-> "ka_send_failed", task |-> i]
    /\ UNCHANGED <<storeVars, now, pc, runConfig, conn, kaSeen, pings, fresh>>
    /\ UNCHANGED sideVars

----------------------------------------------------------------------------
(* config.rs: ConfigWatcher::watch, a reload that loads and parses *)

\* rx.recv() yields a change event; the reload follows after 100 ms.
WatchEvent ==
    /\ watchPc = "recv"
    /\ watchPc' = "load"
    /\ lastOp' = [op |-> "watch_event"]
    /\ UNCHANGED <<storeVars, now, netVars, fresh, lockVars, uiVars>>

\* load_config returns a configuration, which is swapped in.
ConfigReload(c) ==
    /\ watchPc = "load"
    /\ update_config(c)
    /\ watchPc' = "recv"
    /\ lastOp' = [op |-> "update_config", arg |-> c]
    /\ UNCHANGED <<now, netVars, fresh, lockVars, uiVars>>

\* Variant: a failed load is propagated and ends the watcher.
ConfigReloadFailed_stops ==
    /\ watchPc = "load"
    /\ watchPc' = "stopped"
    /\ lastOp' = [op |-> "reload_failed", before |-> config]
    /\ UNCHANGED <<storeVars, now, netVars, fresh, lockVars, uiVars>>

\* load_config fails to read or parse config.toml; the error is logged.
ConfigReloadFailed ==
    /\ watchPc = "load"
    /\ watchPc' = "recv"
    /\ lastOp' = [op |-> "reload_failed", before |-> config]
    /\ UNCHANGED <<storeVars, now, netVars, fresh, lockVars, uiVars>>

\* The watcher, after a change event, finishes the load one way or the other.
WatchLoad ==
    \/ \E c \in ReloadConfigs : ConfigReload(c)
    \/ ConfigReloadFailed

----------------------------------------------------------------------------
(* state.rs: the RwLock of each field of RadarState, as the operations    *)
(* take them.  A guard lives until the operation returns.                 *)

Threads == {"net", "ka", "watcher", "ui"}

\* The instructions of each operation: taking a lock in a mode, reading or
\* writing one half of the configuration, or other work under the locks.
\* Variant: get_connection_status also counts the aircraft, taking the
\* aircraft lock inside the connection_status lock.
Program_inverted(op) ==
    CASE op = "update_aircraft_batch" ->
             <<<<"lock", "aircraft", "w">>, <<"lock", "config", "r">>,
               <<"read", "display">>, <<"work">>,
               <<"lock", "connection_status", "w">>, <<"work">>>>
      [] op = "update_flight_plan" -> <<<<"lock", "aircraft", "w">>, <<"work">>>>
      [] op = "clear_stale_aircraft" ->
             <<<<"lock", "aircraft", "w">>, <<"work">>>>
      [] op = "get_aircraft" -> <<<<"lock", "aircraft", "r">>, <<"work">>>>
      [] op = "update_controllers" ->
             <<<<"lock", "controllers", "w">>, <<"work">>>>
      [] op = "update_atis" -> <<<<"lock", "atis", "w">>, <<"work">>>>
      [] op = "get_all_atis" -> <<<<"lock", "atis", "r">>, <<"work">>>>
      [] op = "update_config" ->
             <<<<"lock", "config", "w">>, <<"write", "display">>,
               <<"write", "network">>>>
      [] op = "get_config" ->
             <<<<"lock", "config", "r">>, <<"read", "display">>,
               <<"read", "network">>>>
      [] op = "set_websocket_connected" ->
             <<<<"lock", "connection_status", "w">>, <<"work">>>>
      [] op = "get_connection_status" ->
             <<<<"lock", "connection_status", "r">>,
               <<"lock", "aircraft", "r">>, <<"work">>>>

Program(op) ==
    CASE op = "update_aircraft_batch" ->
             <<<<"lock", "aircraft", "w">>, <<"lock", "config", "r">>,
               <<"read", "display">>, <<"work">>,
               <<"lock", "connection_status", "w">>, <<"work">>>>
      [] op = "update_flight_plan" -> <<<<"lock", "aircraft", "w">>, <<"work">>>>
      [] op = "clear_stale_aircraft" ->
             <<<<"lock", "aircraft", "w">>, <<"work">>>>
      [] op = "get_aircraft" -> <<<<"lock", "aircraft", "r">>, <<"work">>>>
      [] op = "update_controllers" ->
             <<<<"lock", "controllers", "w">>, <<"work">>>>
      [] op = "update_atis" -> <<<<"lock", "atis", "w">>, <<"work">>>>
      [] op = "get_all_atis" -> <<<<"lock", "atis", "r">>, <<"work">>>>
      [] op = "update_config" ->
             <<<<"lock", "config", "w">>, <<"write", "display">>,
               <<"write", "network">>>>
      [] op = "get_config" ->
             <<<<"lock", "config", "r">>, <<"read", "display">>,
               <<"read", "network">>>>
      [] op = "set_websocket_connected" ->
             <<<<"lock", "connection_status", "w">>, <<"work">>>>
      [] op = "get_connection_status" ->
             <<<<"lock", "connection_status", "r">>, <<"work">>>>

\* The store operations each thread calls.
ThreadOps(th) ==
    CASE th = "net" -> {"update_aircraft_batch", "update_flight_plan",
                        "clear_stale_aircraft",
                        "update_controllers", "update_atis", "get_config",
                        "set_websocket_connected"}
      [] th = "ka" -> {"get_connection_status"}
      [] th = "watcher" -> {"update_config"}
      [] th = "ui" -> {"get_config", "get_connection_status", "get_aircraft",
                       "get_all_atis"}

\* The configurations swapped in while the locks are observed: any two of
\* them, and the default, differ in both halves.
LockConfigs == {RadarConfig(1, TRUE, 0), RadarConfig(2, FALSE, 0)}

NoSnapshot == [display |-> <<>>, network |-> <<>>]

Idle == [i |-> 1, op |-> "idle", arg |-> <<>>]

\* The instruction thread th is at.
Instr(th) == Program(opPc[th].op)[opPc[th].i]

Running(th) ==
    /\ opPc[th].op # "idle"
    /\ opPc[th].i <= Len(Program(opPc[th].op))

\* Variant: a lock is granted whoever holds it.
CanLock_always(th, l, m) == TRUE

\* Another thread has reached self.<field>.write() and does not have the
\* guard yet.
WriterWaiting(th, l) ==
    \E o \in Threads \ {th} :
        /\ Running(o)
        /\ Instr(o) = <<"lock", l, "w">>

\* parking_lot::RwLock: a writer excludes everyone, readers share, and a
\* reader does not overtake a waiting writer (the lock's task-fair policy).
CanLock(th, l, m) ==
    IF m = "w"
    THEN \A o \in Threads \ {th} : \A h \in held[o] : h[1] # l
    ELSE /\ \A o \in Threads \ {th} : <<l, "w">> \notin held[o]
         /\ ~WriterWaiting(th, l)

Advance(th) == opPc' = [opPc EXCEPT ![th].i = @ + 1]

\* Thread th calls the operation op.
StoreCall(th, op, arg) ==
    /\ opPc[th].op = "idle"
    /\ opPc' = [opPc EXCEPT ![th] = [i |-> 1, op |-> op, arg |-> arg]]
    /\ snap' = [snap EXCEPT ![th] = NoSnapshot]
    /\ UNCHANGED <<storeVars, now, netVars, fresh, watchPc, held, lastOp>>
    /\ UNCHANGED uiVars

\* self.<field>.read() or self.<field>.write() returns the guard.
StoreAcquire(th) ==
    /\ Running(th)
    /\ Instr(th)[1] = "lock"
    /\ CanLock(th, Instr(th)[2], Instr(th)[3])
    /\ held' = [held EXCEPT ![th] = @ \cup {<<Instr(th)[2], Instr(th)[3]>>}]
    /\ Advance(th)
    /\ UNCHANGED <<storeVars, now, netVars, fresh, watchPc, snap, lastOp>>
    /\ UNCHANGED uiVars

\* One half of the configuration is copied out under the guard.
StoreRead(th) ==
    /\ Running(th)
    /\ Instr(th)[1] = "read"
    /\ snap' = [snap EXCEPT ![th] =
                   IF Instr(th)[2] = "display"
                   THEN [@ EXCEPT !.display = <<config.display>>]
                   ELSE [@ EXCEPT !.network = <<config.network>>]]
    /\ Advance(th)
    /\ UNCHANGED <<storeVars, now, netVars, fresh, watchPc, held, lastOp>>
    /\ UNCHANGED uiVars

\* One half of the new configuration is moved in under the guard.
StoreWrite(th) ==
    /\ Running(th)
    /\ Instr(th)[1] = "write"
    /\ config' = IF Instr(th)[2] = "display"
                 THEN [config EXCEPT !.display = opPc[th].arg[1].display]
                 ELSE [config EXCEPT !.network = opPc[th].arg[1].network]
    /\ Advance(th)
    /\ UNCHANGED <<aircraft, controllers, atis, status, now, netVars, fresh,
                   watchPc, held, snap, lastOp>>
    /\ UNCHANGED uiVars

\* Work on the locked structures.
StoreWork(th) ==
    /\ Running(th)
    /\ Instr(th)[1] = "work"
    /\ Advance(th)
    /\ UNCHANGED <<storeVars, now, netVars, fresh, watchPc, held, snap,
                   lastOp>>
    /\ UNCHANGED uiVars

\* Variant: the caller keeps the guards of the operation it called.
StoreReturn_keeps_guards(th) ==
    /\ opPc[th].op # "idle"
    /\ opPc[th].i > Len(Program(opPc[th].op))
    /\ opPc' = [opPc EXCEPT ![th] = Idle]
    /\ UNCHANGED <<storeVars, now, netVars, fresh, watchPc, held, snap,
                   lastOp>>
    /\ UNCHANGED uiVars

\* The operation returns and its guards are dropped.
StoreReturn(th) ==
    /\ opPc[th].op # "idle"
    /\ opPc[th].i > Len(Program(opPc[th].op))
    /\ held' = [held EXCEPT ![th] = {}]
    /\ opPc' = [opPc EXCEPT ![th] = Idle]
    /\ UNCHANGED <<storeVars, now, netVars, fresh, watchPc, snap, lastOp>>
    /\ UNCHANGED uiVars

----------------------------------------------------------------------------
(* The whole client *)

InitNet ==
    /\ pc = "top"
    /\ runConfig = DefaultConfig
    /\ conn = 0
    /\ kaPc = [i \in 1..MaxConn |-> "idle"]
    /\ kaSeen = [i \in 1..MaxConn |-> FALSE]
    /\ pings = [i \in 1..MaxConn |-> 0]

\* RadarApp::new: no selection, nothing drawn yet.
InitPanel ==
    /\ selected_aircraft = <<>>
    /\ painter = <<>>
    /\ moves = 0

InitSide ==
    /\ watchPc = "recv"
    /\ held = [th \in Threads |-> {}]
    /\ opPc = [th \in Threads |-> Idle]
    /\ snap = [th \in Threads |-> NoSnapshot]
    /\ projection = Projection_new(Pixels(1920), Pixels(1080))
    /\ InitPanel

Init ==
    /\ aircraft = EmptyMap
    /\ controllers = <<>>
    /\ atis = EmptyMap
    /\ config = DefaultConfig
    /\ status = DefaultConnectionStatus
    /\ now = 0
    /\ InitNet
    /\ InitSide
    /\ fresh = {}
    /\ lastOp = [op |-> "new"]

Next ==
    \/ RunGetConfig
    \/ ConnectOk
    \/ ConnectFail
    \/ ReadText(Frame("ACFT_DATA", TRUE, TRUE, ClientBatch))
    \/ ReadText(Frame("FLIGHT_PLAN", TRUE, TRUE, ClientPlan))
    \/ \E f \in ClientOtherFrames : ReadText(f)
    \/ ReadOther
    \/ \E cause \in {"close", "error", "eof"} : ReadEnd(cause)
    \/ RunDisconnected
    \/ SleepDone
    \/ \E i \in 1..MaxConn : KaTick(i) \/ KaSendOk(i) \/ KaSendFail(i)
    \/ WatchEvent
    \/ \E c \in ReloadConfigs : ConfigReload(c)
    \/ ConfigReloadFailed

Spec == Init /\ [][Next]_vars

\* main: the store is constructed, then load_config reads config.toml; the
\* configuration it returned is handed to the font setup and to RadarApp.
InitStartup ==
    /\ aircraft = EmptyMap
    /\ controllers = <<>>
    /\ atis = EmptyMap
    /\ config = DefaultConfig
    /\ status = DefaultConnectionStatus
    /\ now = 0
    /\ InitNet
    /\ InitSide
    /\ fresh = {}
    /\ \E c \in ReloadConfigs : lastOp = [op |-> "main", loaded |-> c]

\* The whole client from the end of main's startup.
StartupSpec == InitStartup /\ [][Next]_vars

\* The scheduler runs every task that can take a step; frames, failures and
\* changes of config.toml come from outside and are not forced.
FairSpec ==
    /\ Spec
    /\ WF_vars(RunGetConfig)
    /\ WF_vars(ConnectOk \/ ConnectFail)
    /\ WF_vars(RunDisconnected)
    /\ WF_vars(SleepDone)
    /\ \A i \in 1..MaxConn : WF_vars(KaTick(i))
    /\ \A i \in 1..MaxConn : WF_vars(KaSendOk(i) \/ KaSendFail(i))
    /\ WF_vars(WatchLoad)

----------------------------------------------------------------------------
(* The router on one connection that stays up: every kind of frame *)

NextRouter ==
    \/ RunGetConfig
    \/ ConnectOk
    \/ \E t \in AircraftTypes, b \in NetBatches :
          ReadText(Frame(t, TRUE, TRUE, b))
    \/ \E t \in FlightPlanTypes, fp \in FlightPlans :
          ReadText(Frame(t, TRUE, TRUE, fp))
    \/ \E cl \in ControllerLists : ReadText(Frame("CONTROLLERS", TRUE, TRUE, cl))
    \/ \E a \in AtisSet : ReadText(Frame("ATIS", TRUE, TRUE, a))
    \/ \E f \in OtherFrames : ReadText(f)
    \/ WatchEvent
    \/ \E c \in ReloadConfigs : ConfigReload(c)
    \/ ConfigReloadFailed

RouterSpec == Init /\ [][NextRouter]_vars

----------------------------------------------------------------------------
(* The whole client with the clock running *)

NextTimed == Next \/ Tick

TimedSpec == Init /\ [][NextTimed]_vars

\* The scheduler of FairSpec, and time passes.
TimedFairSpec ==
    /\ TimedSpec
    /\ WF_vars(Tick)
    /\ WF_vars(RunGetConfig)
    /\ WF_vars(ConnectOk \/ ConnectFail)
    /\ WF_vars(RunDisconnected)
    /\ WF_vars(SleepDone)
    /\ \A i \in 1..MaxConn : WF_vars(KaTick(i))
    /\ \A i \in 1..MaxConn : WF_vars(KaSendOk(i) \/ KaSendFail(i))
    /\ WF_vars(WatchLoad)

----------------------------------------------------------------------------
(* The store called directly: batches, plans, controller lists, sweeps *)

StorePositions == {Pos(0, 0), Pos(0, 150)}

StoreBatches == BatchesOver(Callsigns, StorePositions) \ {EmptyMap}

StoreControllerLists ==
    {<<>>,
     <<[airport |-> "IRFD", queue |-> <<"a", "a">>]>>,
     <<[airport |-> "IRFD", queue |-> <<"b">>],
       [airport |-> "IRFD", queue |-> <<"b">>]>>}

\* The arguments of the sweep, in seconds.
MaxAges == {0, 1}

\* A store whose configuration was reloaded with display.history_length = 1.
InitStore ==
    /\ aircraft = EmptyMap
    /\ controllers = <<>>
    /\ atis = EmptyMap
    /\ config = RadarConfig(1, FALSE, DefaultReconnectDelay)
    /\ status = DefaultConnectionStatus
    /\ now = 0
    /\ InitNet
    /\ InitSide
    /\ fresh = {}
    /\ lastOp = [op |-> "new"]

NextStore ==
    \/ \E b \in StoreBatches : CallUpdateAircraftBatch(b)
    \/ CallUpdateFlightPlan(ClientPlan)
    \/ \E cl \in StoreControllerLists : CallUpdateControllers(cl)
    \/ \E n \in MaxAges : CallClearStaleAircraft(n)
    \/ Tick

StoreSpec == InitStore /\ [][NextStore]_vars

----------------------------------------------------------------------------
(* The projection under the input of the radar panel *)

\* The scales at which the projection is picked up: the default, and the two
\* ends of the range, which zooming without an anchor reaches from the
\* default with the centre still at the origin.
StartScales == {MinScale, DefaultScale, MaxScale}

InitProjection ==
    /\ aircraft = EmptyMap
    /\ controllers = <<>>
    /\ atis = EmptyMap
    /\ config = DefaultConfig
    /\ status = DefaultConnectionStatus
    /\ now = 0
    /\ InitNet
    /\ watchPc = "recv"
    /\ held = [th \in Threads |-> {}]
    /\ opPc = [th \in Threads |-> Idle]
    /\ snap = [th \in Threads |-> NoSnapshot]
    /\ \E s \in StartScales :
          projection = [Projection_new(Pixels(1920), Pixels(1080))
                           EXCEPT !.studs_per_pixel = Studs(s)]
    /\ InitPanel
    /\ fresh = {}
    /\ lastOp = [op |-> "new"]

NextProjection ==
    \/ \E size \in ScreenSizes : UpdateScreenSize(size)
    \/ \E delta \in DragDeltas : Pan(delta)
    \/ \E delta \in {0 - 1, 1}, m \in MousePositions :
          Zoom(delta, <<<<Pixels(m[1]), Pixels(m[2])>>>>)
    \/ \E delta \in {0 - 1, 1} : Zoom(delta, <<>>)

ProjectionSpec == InitProjection /\ [][NextProjection]_vars

----------------------------------------------------------------------------
(* Data-tag lines formatted from templates *)

\* The pieces templates are put together from: the ten tokens, two brace
\* tokens the formatter does not know, and plain text.
Tokens ==
    {Str_callsign, Str_altitude03, Str_altitude, Str_speed03, Str_speed,
     Str_gs03, Str_gs, Str_heading03, Str_heading, Str_type}

UnknownTokens == {<<"{", "f", "o", "o", "}">>, <<"{", "s", "q", "u", "a", "w", "k", ":", "0", "4", "}">>}

PlainTexts == {<<"F">>, <<" ">>, <<"K", "T">>}

Pieces == Tokens \cup UnknownTokens \cup PlainTexts

\* The default second line, "F{altitude:03} {gs:03}KT", piece by piece.
DefaultLine2 == <<<<"F">>, Str_altitude03, <<" ">>, Str_gs03, <<"K", "T">>>>

\* The pieces that follow another piece in a template of two.
SecondPieces == {Str_type, <<"K", "T">>} \cup UnknownTokens

\* Templates as sequences of pieces: one piece, a piece twice, a piece
\* followed by one of the second pieces, and the default second line.
TemplatePieces ==
    {<<a>> : a \in Pieces} \cup {<<a, a>> : a \in Pieces}
        \cup {<<a, b>> : a \in Pieces, b \in SecondPieces}
        \cup {DefaultLine2}

TagInfo(altitude, speed, ground_speed, heading, aircraft_type) ==
    [heading |-> heading, ground_speed |-> ground_speed,
     altitude |-> altitude, speed |-> speed,
     aircraft_type |-> aircraft_type]

\* Aircraft as the formatter reads them: one mid-flight, one low and slow,
\* one above FL999, and one whose callsign is the text of a token.
TagAircraft ==
    {[callsign |-> <<"A", "B", "C", "1", "2", "3">>,
      info |-> TagInfo(12345, 250, 87, 5, <<"A", "3", "2", "0">>)],
     [callsign |-> <<"X", "Y", "Z", "1">>,
      info |-> TagInfo(99, 0, 7, 270, <<"C", "1", "7", "2">>)],
     [callsign |-> <<"N", "1">>,
      info |-> TagInfo(100000, 1234, 1001, 360, <<"B", "7", "4", "4">>)],
     [callsign |-> Str_gs,
      info |-> TagInfo(3000, 120, 110, 90, <<"A", "3", "2", "0">>)]}

NextTag ==
    \E pieces \in TemplatePieces, tracked \in TagAircraft :
        FormatTagLine(Concat(pieces), tracked)

TagSpec == InitStore /\ [][NextTag]_vars

----------------------------------------------------------------------------
(* The keyed entries of the store: writes and point reads *)

Airports == {"IRFD", "ITKO"}

StoreAtisSet == [airport : Airports, letter : {"A", "B"}]

\* The keys asked for: the callsigns and airports written, and one of each
\* that never is.
ReadCallsigns == Callsigns \cup {"NONE0"}

ReadAirports == Airports \cup {"IZOL"}

NextRead ==
    \/ \E b \in SingleBatches : CallUpdateAircraftBatch(b)
    \/ \E n \in MaxAges : CallClearStaleAircraft(n)
    \/ \E a \in StoreAtisSet : CallUpdateAtis(a)
    \/ \E c \in ReadCallsigns : CallGetAircraftByCallsign(c)
    \/ \E a \in ReadAirports : CallGetAtis(a)

ReadSpec == InitStore /\ [][NextRead]_vars

----------------------------------------------------------------------------
(* The radar panel drawing the aircraft of the store *)

\* Samples with the fields the renderer reads: airborne with no ground flag,
\* in emergency on the ground, on the ground, and airborne heading north-east.
Airborne == RenderInfo(Pos(0, 150), 0, 120, <<>>, FALSE)

Emergency == RenderInfo(Pos(0, 0), 180, 250, <<TRUE>>, TRUE)

Parked == RenderInfo(Pos(0, 0), 90, 10, <<TRUE>>, FALSE)

Climbing == RenderInfo(Pos(0, 150), 45, 200, <<FALSE>>, FALSE)

RenderBatches ==
    {[c \in Callsigns |-> IF c = "ABC123" THEN Airborne ELSE Emergency],
     [c \in {"ABC123"} |-> Parked],
     [c \in {"XYZ1"} |-> Climbing]}

ClickPositions == {<<960, 540>>, <<100, 100>>}

NextRender ==
    \/ \E b \in RenderBatches : CallUpdateAircraftBatch(b)
    \/ \E pos \in ClickPositions : Click(pos)
    \/ \E order \in Orders(DOMAIN aircraft), display \in Displays,
          tag_config \in TagConfigs, t \in FrameTimes :
          Render(order, display, tag_config, t)

RenderSpec == InitStore /\ [][NextRender]_vars

----------------------------------------------------------------------------
(* The store operations of all threads, lock by lock *)

NextLock ==
    \/ \E th \in Threads : \E op \in ThreadOps(th) :
          /\ op # "update_config"
          /\ StoreCall(th, op, <<>>)
    \/ \E c \in LockConfigs : StoreCall("watcher", "update_config", <<c>>)
    \/ \E th \in Threads :
          \/ StoreAcquire(th)
          \/ StoreRead(th)
          \/ StoreWrite(th)
          \/ StoreWork(th)
          \/ StoreReturn(th)

LockSpec == Init /\ [][NextLock]_vars

\* Every thread keeps running, and a thread waiting for a lock that becomes
\* free again and again gets it (parking_lot hands locks over fairly).
LockFairSpec ==
    /\ LockSpec
    /\ \A th \in Threads :
          /\ SF_vars(StoreAcquire(th))
          /\ WF_vars(StoreRead(th))
          /\ WF_vars(StoreWrite(th))
          /\ WF_vars(StoreWork(th))
          /\ WF_vars(StoreReturn(th))

----------------------------------------------------------------------------
(* The store with a fixed configuration, fed samples of one callsign *)

InitHistory ==
    /\ aircraft = EmptyMap
    /\ controllers = <<>>
    /\ atis = EmptyMap
    /\ config \in Configs
    /\ status = DefaultConnectionStatus
    /\ now = 0
    /\ InitNet
    /\ InitSide
    /\ fresh = {}
    /\ lastOp = [op |-> "new"]

NextHistory ==
    \/ \E b \in SingleBatches : CallUpdateAircraftBatch(b)
    \/ Tick

HistorySpec == InitHistory /\ [][NextHistory]_vars

----------------------------------------------------------------------------
(* Samples of one aircraft while the configuration is swapped *)

NextSwap ==
    \/ \E b \in SingleBatches : CallUpdateAircraftBatch(b)
    \/ \E c \in Configs : CallUpdateConfig(c)

SwapSpec == InitHistory /\ [][NextSwap]_vars

----------------------------------------------------------------------------
(* Properties of the history policy, checked under HistorySpec *)

SquaredDistance(p, q) == (p.x - q.x) * (p.x - q.x) + (p.y - q.y) * (p.y - q.y)

\* The last step applied a batch that updated the tracked aircraft c.
Updated(c) ==
    /\ lastOp.op = "update_aircraft_batch"
    /\ c \in DOMAIN lastOp.arg
    /\ c \in DOMAIN lastOp.before

\* The last step updated c with a sample more than 100 units from the
\* position c held.
UpdatedFar(c) ==
    /\ Updated(c)
    /\ SquaredDistance(lastOp.arg[c].position,
                       lastOp.before[c].info.position) > 100 * 100

\* The point an update of c records: the position and time c held before.
HeldPoint(c) ==
    <<lastOp.before[c].info.position.x,
      lastOp.before[c].info.position.y,
      lastOp.before[c].last_update>>

\* C1: with a fixed configuration, the history of an aircraft is never
\* longer than display.history_length.
C1_HistoryWithinLimit ==
    \A c \in DOMAIN aircraft :
        Len(aircraft[c].history) <= config.display.history_length

\* A full history received one more point and is still full.
C1_Witness ==
    \E c \in Callsigns :
        /\ UpdatedFar(c)
        /\ config.display.history_length >= 1
        /\ Len(lastOp.before[c].history) = config.display.history_length
        /\ Len(aircraft[c].history) = config.display.history_length

\* C2: an update records a history point exactly when the incoming position
\* is strictly more than 100 units from the position held; otherwise the
\* history is left as it was.
C2_AppendsIffFartherThanThreshold ==
    \A c \in Callsigns :
        Updated(c) =>
            LET pushed == Append(lastOp.before[c].history, HeldPoint(c))
            IN  IF SquaredDistance(lastOp.arg[c].position,
                                   lastOp.before[c].info.position) > 100 * 100
                THEN aircraft[c].history \in {pushed, Tail(pushed)}
                ELSE aircraft[c].history = lastOp.before[c].history

\* An update at exactly 100 units left a non-empty history unchanged.
C2_Witness ==
    \E c \in Callsigns :
        /\ Updated(c)
        /\ SquaredDistance(lastOp.arg[c].position,
                           lastOp.before[c].info.position) = 100 * 100
        /\ aircraft[c].history # <<>>
        /\ aircraft[c].history = lastOp.before[c].history

\* C3 as stated: a first sighting leaves the history empty, and the first
\* update, when more than 100 units away, leaves exactly the first-sighted
\* position in the history.
C3_FirstUpdateRecordsFirstPosition ==
    /\ \A c \in fresh : c \in DOMAIN aircraft /\ aircraft[c].history = <<>>
    /\ \A c \in Callsigns :
          (UpdatedFar(c) /\ c \in lastOp.fresh) =>
              /\ Len(aircraft[c].history) = 1
              /\ aircraft[c].history[1][1] = lastOp.before[c].info.position.x
              /\ aircraft[c].history[1][2] = lastOp.before[c].info.position.y

\* C3 amended: as C3 when display.history_length is at least 1; with
\* display.history_length = 0 the history stays empty.
C3_FirstUpdateRecordsFirstPositionIfRoom ==
    /\ \A c \in fresh : c \in DOMAIN aircraft /\ aircraft[c].history = <<>>
    /\ \A c \in Callsigns :
          (UpdatedFar(c) /\ c \in lastOp.fresh) =>
              IF config.display.history_length >= 1
              THEN /\ Len(aircraft[c].history) = 1
                   /\ aircraft[c].history[1][1] =
                          lastOp.before[c].info.position.x
                   /\ aircraft[c].history[1][2] =
                          lastOp.before[c].info.position.y
              ELSE aircraft[c].history = <<>>

\* ABC123, first sighted at (0,0), was updated once at (0,150).
C3_Witness ==
    /\ UpdatedFar("ABC123")
    /\ "ABC123" \in lastOp.fresh
    /\ lastOp.before["ABC123"].info.position = Pos(0, 0)
    /\ aircraft["ABC123"].info.position = Pos(0, 150)
    /\ Len(aircraft["ABC123"].history) = 1

\* C4: when recording a point makes the history longer than the maximum,
\* the front point is removed, the others keep their order and the new
\* point is at the back.
C4_EvictsOldestFirst ==
    \A c \in Callsigns :
        UpdatedFar(c) =>
            LET pushed == Append(lastOp.before[c].history, HeldPoint(c))
            IN  Len(pushed) > config.display.history_length =>
                    aircraft[c].history = Tail(pushed)

\* A history of two different points was full and received a third.
C4_Witness ==
    \E c \in Callsigns :
        /\ UpdatedFar(c)
        /\ Len(lastOp.before[c].history) = config.display.history_length
        /\ Len(lastOp.before[c].history) >= 2
        /\ lastOp.before[c].history[1] # lastOp.before[c].history[2]
        /\ aircraft[c].history[Len(aircraft[c].history)] = HeldPoint(c)

----------------------------------------------------------------------------
(* Properties of the router, checked under RouterSpec *)

\* The last step handled a frame whose envelope parsed.
Handled == lastOp.op = "handle_message" /\ lastOp.frame.env

\* The aircraft map and the configuration the last handled frame met.
AircraftBefore == lastOp.before[1]

ConfigBefore == lastOp.before[4]

\* C5: a flight plan for a callsign that is not tracked changes nothing and
\* creates no aircraft, and an aircraft is created without a flight plan,
\* whatever plans arrived for its callsign before.
C5_UnmatchedFlightPlanDropped ==
    /\ (/\ Handled
        /\ lastOp.frame.t \in FlightPlanTypes
        /\ lastOp.frame.valid
        /\ lastOp.frame.d.callsign \notin DOMAIN AircraftBefore)
          => aircraft = AircraftBefore
    /\ (Handled /\ lastOp.frame.t \in AircraftTypes /\ lastOp.frame.valid)
          => \A c \in DOMAIN aircraft \ DOMAIN AircraftBefore :
                 aircraft[c].flight_plan = <<>>

\* A plan for XYZ1 arrived while only ABC123 was tracked.
C5_Witness ==
    /\ Handled
    /\ lastOp.frame.t = "FLIGHT_PLAN"
    /\ lastOp.frame.valid
    /\ lastOp.frame.d.callsign = "XYZ1"
    /\ DOMAIN aircraft = {"ABC123"}

\* C6: with enable_event_server = false a frame of either event type
\* changes nothing in the store and handle_message returns no error.
C6_DisabledEventSourceIgnored ==
    (/\ Handled
     /\ lastOp.frame.t \in EventTypes
     /\ ~ConfigBefore.network.enable_event_server)
        => /\ storeVars = lastOp.before
           /\ lastOp.result = "Ok"

----------------------------------------------------------------------------
(* Properties of the streaming client, checked under Spec and FairSpec *)

\* The client has left Connected and the flag is reset.
Disconnected == pc \in {"sleeping", "top"} /\ ~status.websocket_connected

\* The established connection has just failed: the read loop got a close
\* frame or an error, or a probe of its keep-alive task could not be sent.
ConnectionFailed ==
    \/ lastOp.op = "read_end" /\ lastOp.cause \in {"close", "error"}
    \/ /\ lastOp.op = "ka_send_failed"
       /\ lastOp.task = conn
       /\ pc = "reading"

\* C7: a read error, a close frame or a failed probe on the established
\* connection leads the client back to Disconnected.
C7_FailureLeadsToDisconnected == ConnectionFailed ~> Disconnected

\* C8: the connected flag is true only on an established connection: never
\* after a failed attempt, and never while the client sleeps before, or
\* starts, the next attempt.
C8_FlagOnlyWhileConnected ==
    /\ status.websocket_connected => pc \in {"reading", "closed"} /\ conn >= 1
    /\ pc \in {"failed", "sleeping", "top", "connecting"}
          => ~status.websocket_connected
    /\ lastOp.op = "connect_ok" => status.websocket_connected

\* A second attempt begins after an established connection was dropped.
C8_Witness ==
    /\ pc = "connecting"
    /\ conn >= 1
    /\ lastOp.op = "get_config"
    /\ lastOp.after = "sleep_done"
    /\ ~status.websocket_connected

\* C9: whenever the client is not connected and not connecting, it is
\* connecting again later.
C9_AlwaysRetries ==
    (pc \notin {"connecting", "reading"}) ~> (pc = "connecting")

\* A new attempt begins after the delay although no attempt ever succeeded.
C9_Witness ==
    /\ pc = "connecting"
    /\ conn = 0
    /\ lastOp.op = "get_config"
    /\ lastOp.after = "sleep_done"

\* C10: on a tick the keep-alive task goes on to send exactly when it reads
\* the flag as true and otherwise ends without sending; it ends when a send
\* fails; it has read the flag as true before every send.
C10_KeepAliveSelfTerminates ==
    /\ lastOp.op = "ka_tick" =>
          /\ kaPc[lastOp.task] =
                 IF status.websocket_connected THEN "send" ELSE "done"
          /\ kaSeen[lastOp.task] = status.websocket_connected
          /\ pings[lastOp.task] = lastOp.pings
    /\ lastOp.op = "ka_send_failed" => kaPc[lastOp.task] = "done"
    /\ lastOp.op = "ka_send_ok" => kaSeen[lastOp.task]
    /\ \A i \in 1..MaxConn : kaPc[i] = "send" => kaSeen[i]

\* A task that had sent a probe read the flag as false and ended.
C10_Witness ==
    /\ lastOp.op = "ka_tick"
    /\ ~status.websocket_connected
    /\ kaPc[lastOp.task] = "done"
    /\ pings[lastOp.task] >= 1

----------------------------------------------------------------------------
(* Frames the router drops or ignores, checked under RouterSpec *)

\* The payload of the frame is parsed against the schema of its type: the
\* type has an arm, and the arm of EVENT_ACFT_DATA is entered only while the
\* event source is enabled.
PayloadParsed(frame, cfg) ==
    /\ frame.env
    /\ frame.t \in KnownTypes
    /\ frame.t = "EVENT_ACFT_DATA" => cfg.network.enable_event_server

\* The frame is rejected: its envelope does not parse, or its payload is
\* parsed and does not match.
Rejected(frame, cfg) ==
    \/ ~frame.env
    \/ PayloadParsed(frame, cfg) /\ ~frame.valid

\* The read loop is still on the connection, with the flag set.
StillConnected == pc = "reading" /\ status.websocket_connected

\* C11: a text frame whose envelope does not parse, or whose payload does
\* not match the schema of its type, is an error of handle_message that
\* leaves the whole store as it was, and the read loop stays on the
\* connection with the client Connected.
C11_MalformedFrameDropped ==
    /\ (lastOp.op = "handle_message" /\ Rejected(lastOp.frame, lastOp.before[4]))
          => /\ lastOp.result = "Err"
             /\ storeVars = lastOp.before
             /\ StillConnected
    /\ (lastOp.op = "handle_message"
          /\ (~lastOp.frame.env \/ ~lastOp.frame.valid))
          => storeVars = lastOp.before /\ StillConnected

\* A CONTROLLERS frame with a payload that is not a controller list was
\* handled while ABC123 was tracked and an ATIS was stored.
C11_Witness ==
    /\ lastOp.op = "handle_message"
    /\ lastOp.frame.env
    /\ ~lastOp.frame.valid
    /\ lastOp.frame.t = "CONTROLLERS"
    /\ lastOp.result = "Err"
    /\ "ABC123" \in DOMAIN aircraft
    /\ DOMAIN atis # {}
    /\ pc = "reading"

\* C12: a frame with a well-formed envelope and a type string that has no
\* arm is a success of handle_message that changes no collection of the
\* store and leaves the connection as it is.
C12_UnknownTypeIgnored ==
    (Handled /\ lastOp.frame.t \notin KnownTypes)
        => /\ lastOp.result = "Ok"
           /\ storeVars = lastOp.before
           /\ StillConnected

\* A PILOT_CHAT frame was handled while an aircraft was tracked.
C12_Witness ==
    /\ Handled
    /\ lastOp.frame.t = "PILOT_CHAT"
    /\ DOMAIN aircraft # {}
    /\ controllers # <<>>

----------------------------------------------------------------------------
(* Order of samples, checked under RouterSpec *)

\* The last step handled a frame that handle_message applied as a batch.
AppliedBatch ==
    /\ Handled
    /\ lastOp.frame.valid
    /\ \/ lastOp.frame.t = "ACFT_DATA"
       \/ /\ lastOp.frame.t = "EVENT_ACFT_DATA"
          /\ ConfigBefore.network.enable_event_server

\* C15 as stated: after a well-formed aircraft frame of either type is
\* handled, every callsign in it holds the sample of that frame.
C15_LastFrameWins ==
    (Handled /\ lastOp.frame.valid /\ lastOp.frame.t \in AircraftTypes)
        => \A c \in DOMAIN lastOp.frame.d :
              /\ c \in DOMAIN aircraft
              /\ aircraft[c].info = lastOp.frame.d[c]

\* C15: after a frame that the router applied as a batch, every callsign in
\* it holds the sample of that frame; and whatever frame was handled, a
\* callsign that is not in an applied batch keeps the sample it had.
C15_LastAppliedFrameWins ==
    /\ AppliedBatch
          => \A c \in DOMAIN lastOp.frame.d :
                /\ c \in DOMAIN aircraft
                /\ aircraft[c].info = lastOp.frame.d[c]
    /\ lastOp.op = "handle_message"
          => \A c \in DOMAIN AircraftBefore :
                (~AppliedBatch \/ c \notin DOMAIN lastOp.frame.d)
                    => /\ c \in DOMAIN aircraft
                       /\ aircraft[c].info = AircraftBefore[c].info

\* A batch moved ABC123 to a new sample while XYZ1, tracked and not in the
\* batch, kept its own.
C15_Witness ==
    /\ AppliedBatch
    /\ DOMAIN lastOp.frame.d = {"ABC123"}
    /\ "ABC123" \in DOMAIN AircraftBefore
    /\ AircraftBefore["ABC123"].info # lastOp.frame.d["ABC123"]
    /\ "XYZ1" \in DOMAIN aircraft

----------------------------------------------------------------------------
(* Properties of the locks, checked under LockSpec *)

\* The configurations that are ever handed to the store.
WholeConfigs == LockConfigs \cup {DefaultConfig}

\* Thread th has copied both halves of the configuration.
SnapshotComplete(th) == snap[th].display # <<>> /\ snap[th].network # <<>>

Snapshot(th) ==
    [display |-> snap[th].display[1], network |-> snap[th].network[1]]

\* C13: whatever the interleaving of update_config with get_config and
\* update_aircraft_batch, a configuration copied out by a reader is one of
\* the configurations handed to the store, never one half of one with the
\* other half of another; and while a reader holds the configuration lock
\* the stored configuration is such a whole one.
C13_SnapshotsAreWhole ==
    /\ \A th \in Threads :
          SnapshotComplete(th) => Snapshot(th) \in WholeConfigs
    /\ \A th \in Threads :
          <<"config", "r">> \in held[th] => config \in WholeConfigs

\* The UI thread has copied a whole reloaded configuration out while the
\* watcher, holding the write lock, has moved in one half of another and
\* update_aircraft_batch waits for the configuration lock.
C13_Witness ==
    /\ SnapshotComplete("ui")
    /\ Snapshot("ui") \in LockConfigs
    /\ <<"config", "w">> \in held["watcher"]
    /\ config \notin WholeConfigs
    /\ opPc["net"].op = "update_aircraft_batch"
    /\ opPc["net"].i = 2

\* The structures whose lock thread th holds.
LockedBy(th) == {h[1] : h \in held[th]}

\* C14: no thread holds the locks of two structures of the store at once.
C14_AtMostOneLock == \A th \in Threads : Cardinality(LockedBy(th)) <= 1

----------------------------------------------------------------------------
(* Staleness, checked under TimedFairSpec and StoreSpec *)

\* The time since the last update of the tracked aircraft t.
Age(t) == now - t.last_update

\* c is tracked and was last updated a second or more ago.
Stale(c) == c \in DOMAIN aircraft /\ Age(aircraft[c]) >= MillisPerSecond

\* C16: in the running client an aircraft that has had no sample for the
\* window of one second is eventually removed from the store, unless a new
\* sample arrives for it.
C16_StaleEventuallyRemoved == \A c \in Callsigns : Stale(c) ~> ~Stale(c)

\* The last step was a sweep.
Swept == lastOp.op = "clear_stale_aircraft"

\* C17: clear_stale_aircraft(N) removes every aircraft last updated N
\* seconds ago or more, keeps every other aircraft exactly as it was, and
\* adds none.
C17_SweepRemovesExactlyStale ==
    Swept =>
        /\ DOMAIN aircraft \subseteq DOMAIN lastOp.before
        /\ \A c \in DOMAIN lastOp.before :
              IF Age(lastOp.before[c]) >= lastOp.arg * MillisPerSecond
              THEN c \notin DOMAIN aircraft
              ELSE c \in DOMAIN aircraft /\ aircraft[c] = lastOp.before[c]

\* A sweep of one second removed XYZ1, exactly one second old, and kept
\* ABC123 with its history point and flight plan.
C17_Witness ==
    /\ Swept
    /\ lastOp.arg = 1
    /\ "XYZ1" \in DOMAIN lastOp.before
    /\ Age(lastOp.before["XYZ1"]) = MillisPerSecond
    /\ DOMAIN aircraft = {"ABC123"}
    /\ aircraft["ABC123"].history # <<>>
    /\ aircraft["ABC123"].flight_plan # <<>>

----------------------------------------------------------------------------
(* The controller list, checked under StoreSpec *)

\* C18: after update_controllers the stored list is the payload, entry for
\* entry, whatever was stored before; so a second call with the same payload
\* leaves the list of the first.
C18_ControllersReplaced ==
    lastOp.op = "update_controllers" => controllers = lastOp.arg

\* A payload of two equal entries was applied a second time.
C18_Witness ==
    /\ lastOp.op = "update_controllers"
    /\ Len(lastOp.arg) = 2
    /\ lastOp.arg[1] = lastOp.arg[2]
    /\ lastOp.before = lastOp.arg

----------------------------------------------------------------------------
(* Configuration reloads, checked under Spec *)

\* C19: after a reload whose load_config failed, the configuration of the
\* store is exactly the one before the attempt, and the watcher is back
\* waiting for the next change event.
C19_FailedReloadKeepsConfig ==
    lastOp.op = "reload_failed"
        => /\ config = lastOp.before
           /\ watchPc = "recv"

\* A reload failed after an earlier one had swapped in a configuration that
\* enables the event source; that configuration is still in the store.
C19_Witness ==
    /\ lastOp.op = "reload_failed"
    /\ config # DefaultConfig
    /\ config.network.enable_event_server
    /\ watchPc = "recv"

\* C20: the snapshot the client connects with is the configuration of the
\* store at that moment, and the reconnect delay the client sleeps after a
\* disconnect is the delay of the configuration in the store at the moment
\* of the disconnect.
C20_DelayFromActiveConfig ==
    /\ lastOp.op = "get_config" => runConfig = config
    /\ lastOp.op = "set_disconnected"
          => runConfig.network.reconnect_delay_secs
                 = config.network.reconnect_delay_secs

----------------------------------------------------------------------------
(* The projection, checked under ProjectionSpec *)

InRange(studs_per_pixel) ==
    /\ studs_per_pixel >= Studs(MinScale)
    /\ studs_per_pixel <= Studs(MaxScale)

\* The scale a zoom by delta gives from the scale s: one step of 0.9 or 1.1,
\* then the clamp.
ZoomedScale(s, delta) ==
    Clamp(RoundDiv(s * (IF delta > 0 THEN ZoomInTenths ELSE ZoomOutTenths),
                   10),
          Studs(MinScale), Studs(MaxScale))

\* C24: after any sequence of zooms and pans the scale lies in [1, 1000];
\* a zoom in multiplies the scale by 0.9 and a zoom out by 1.1 before the
\* clamp, and a pan leaves the scale alone.
C24_ScaleClamped ==
    /\ InRange(projection.studs_per_pixel)
    /\ lastOp.op = "zoom"
          => projection.studs_per_pixel
                 = ZoomedScale(lastOp.before.studs_per_pixel, lastOp.arg)
    /\ lastOp.op = "pan"
          => projection.studs_per_pixel = lastOp.before.studs_per_pixel

\* A zoom out at the upper limit, which the clamp brought back to the limit.
C24_Witness ==
    /\ lastOp.op = "zoom"
    /\ lastOp.arg < 0
    /\ lastOp.before.studs_per_pixel = Studs(MaxScale)
    /\ projection.studs_per_pixel = Studs(MaxScale)

\* Two world coordinates that differ by at most one step of the resolution.
Near(a, b) ==
    /\ a[1] - b[1] \in (0 - 1) .. 1
    /\ a[2] - b[2] \in (0 - 1) .. 1

\* C25: a zoom with an anchor pixel leaves the world coordinate under that
\* pixel where it was, at the limits of the scale as well.
C25_AnchorKept ==
    (lastOp.op = "zoom" /\ lastOp.mouse_pos # <<>>)
        => Near(screen_to_studs(projection, lastOp.mouse_pos[1]),
                screen_to_studs(lastOp.before, lastOp.mouse_pos[1]))

\* The world points the round trip is taken on, in steps of the resolution.
WorldPoints ==
    {<<x, y>> : x \in {0 - (Studs(2500) + 37), 0, Studs(150) + 1},
                y \in {0 - Studs(12), Studs(150), Studs(4000) + 63}}

\* The world length of half a step of the screen resolution, rounded up: what
\* the conversion of a screen coordinate to f32 can lose.
ScreenQuantum(self) == self.studs_per_pixel \div (2 * PixelRes) + 1

RoundTrip(self, p) ==
    screen_to_studs(self, studs_to_screen(self, p[1], p[2]))

\* C26: for the projection of every reachable state, whatever its centre,
\* scale and screen size, the world point of the screen position of a world
\* point is that point, to within the resolution of the screen coordinate.
C26_RoundTrip ==
    \A p \in WorldPoints :
        /\ RoundTrip(projection, p)[1] - p[1]
               \in (0 - ScreenQuantum(projection)) .. ScreenQuantum(projection)
        /\ RoundTrip(projection, p)[2] - p[2]
               \in (0 - ScreenQuantum(projection)) .. ScreenQuantum(projection)

\* A panned projection on the small panel at the lower limit of the scale,
\* where a point comes back from the round trip next to where it was.
C26_Witness ==
    /\ projection.center # <<0, 0>>
    /\ projection.studs_per_pixel = Studs(MinScale)
    /\ projection.screen_width = Pixels(801)
    /\ \E p \in WorldPoints : RoundTrip(projection, p) # p

----------------------------------------------------------------------------
(* The renderer, checked under RenderSpec *)

\* The position of a part in the back-to-front order of the layers.
Layer(part) ==
    CASE part = "history" -> 1
      [] part = "vector" -> 2
      [] part = "target" -> 3
      [] part = "tag" -> 4

Enabled(display, part) ==
    CASE part = "history" -> display.show_history
      [] part = "vector" -> display.show_vectors
      [] part = "target" -> TRUE
      [] part = "tag" -> display.show_tags

\* The instructions of part p that the frame holds for the aircraft c.
CountOf(p, c) ==
    Cardinality({i \in 1..Len(painter) :
                    painter[i].part = p /\ painter[i].callsign = c})

KeptBy(display, instruction) == Enabled(display, instruction.part)

\* The frame the same render gives with every layer switched on.
FullFrame ==
    render(projection, aircraft, lastOp.order, Display(TRUE, TRUE, TRUE),
           lastOp.tag_config, lastOp.time_millis)

\* C21: in a frame every history dot precedes every vector, every vector
\* every target symbol and every target symbol every tag text, whatever the
\* order of the aircraft; every aircraft has its instructions in each layer
\* that is switched on, and a frame with a layer switched off is the full
\* frame without the instructions of that layer, in the same order.
C21_LayersInOrder ==
    /\ \A i, j \in 1..Len(painter) :
          i < j => Layer(painter[i].part) <= Layer(painter[j].part)
    /\ lastOp.op = "render"
          => /\ \A c \in DOMAIN aircraft :
                   /\ CountOf("target", c) = 2
                   /\ CountOf("vector", c)
                          = (IF lastOp.display.show_vectors THEN 1 ELSE 0)
                   /\ CountOf("history", c)
                          = (IF lastOp.display.show_history
                             THEN Len(aircraft[c].history) ELSE 0)
                   /\ CountOf("tag", c)
                          = (IF lastOp.display.show_tags
                             THEN 2 + Len(lastOp.tag_config.line3)
                                    + Len(lastOp.tag_config.line4)
                             ELSE 0)
             /\ painter = SelectSeq(FullFrame,
                                    LAMBDA d : KeptBy(lastOp.display, d))

\* A frame of two aircraft with all layers on, drawn in the order in which
\* the aircraft with a history dot comes last.
C21_Witness ==
    /\ lastOp.op = "render"
    /\ lastOp.display = Display(TRUE, TRUE, TRUE)
    /\ Len(lastOp.order) = 2
    /\ aircraft[lastOp.order[2]].history # <<>>
    /\ aircraft[lastOp.order[1]].history = <<>>
    /\ painter[1].part = "history"
    /\ painter[Len(painter)].part = "tag"

\* The target instructions of the frame.
Targets == {i \in 1..Len(painter) : painter[i].part = "target"}

Selected(c) == selected_aircraft = <<c>>

\* C22: the colour of a target symbol follows the priority emergency, then
\* selected, then on the ground, then normal: an emergency aircraft gets
\* neither the selected nor the ground nor the normal colour, a selected
\* aircraft not in emergency gets the selected colour also on the ground,
\* and without a ground flag an aircraft is drawn as airborne.
C22_ColorPriority ==
    lastOp.op = "render"
        => \A i \in Targets :
              LET c == painter[i].callsign
                  info == aircraft[c].info
                  color == painter[i].color
              IN  /\ info.is_emergency_occuring
                        => color \in {"target_emergency", "TRANSPARENT"}
                  /\ (~info.is_emergency_occuring /\ Selected(c))
                        => color = "target_selected"
                  /\ (~info.is_emergency_occuring /\ ~Selected(c)
                         /\ info.is_on_ground = <<TRUE>>)
                        => color = "ground"
                  /\ (~info.is_emergency_occuring /\ ~Selected(c)
                         /\ info.is_on_ground \in {<<>>, <<FALSE>>})
                        => color = "target"

\* A frame in which the selected aircraft is in emergency on the ground and
\* drawn in the emergency colour, next to an aircraft without a ground flag.
C22_Witness ==
    /\ lastOp.op = "render"
    /\ DOMAIN aircraft = Callsigns
    /\ Selected("XYZ1")
    /\ aircraft["XYZ1"].info = Emergency
    /\ aircraft["ABC123"].info.is_on_ground = <<>>
    /\ \E i \in Targets :
          painter[i].callsign = "XYZ1" /\ painter[i].color = "target_emergency"
    /\ \E i \in Targets :
          painter[i].callsign = "ABC123" /\ painter[i].color = "target"

\* The colour the flash gives an emergency symbol at the clock t.
FlashColor(t) ==
    IF (t \div FlashHalfPeriod) % 2 = 0 THEN "target_emergency"
                                        ELSE "TRANSPARENT"

\* C23: the symbol of an emergency aircraft has the emergency colour while
\* floor(t / 500) is even and is transparent while it is odd, selected or
\* not; so its colour at t and t + 1000 is the same and at t and t + 500
\* differs, for every clock value t >= 0.
C23_FlashPeriod ==
    /\ lastOp.op = "render"
          => \A i \in Targets :
                aircraft[painter[i].callsign].info.is_emergency_occuring
                    => painter[i].color = FlashColor(lastOp.time_millis)
    /\ \A c \in DOMAIN aircraft :
          aircraft[c].info.is_emergency_occuring
              => \A t \in 0..MaxClock :
                    /\ target_color(aircraft[c], t) = FlashColor(t)
                    /\ target_color(aircraft[c], t)
                           = target_color(aircraft[c], t + 2 * FlashHalfPeriod)
                    /\ target_color(aircraft[c], t)
                           # target_color(aircraft[c], t + FlashHalfPeriod)

\* A frame at 500 ms in which the selected emergency aircraft is transparent.
C23_Witness ==
    /\ lastOp.op = "render"
    /\ lastOp.time_millis = FlashHalfPeriod
    /\ \E i \in Targets :
          /\ aircraft[painter[i].callsign].info.is_emergency_occuring
          /\ Selected(painter[i].callsign)
          /\ painter[i].color = "TRANSPARENT"

\* The compass: the east and north parts of a heading, in thousandths.
CompassEast(heading) ==
    CASE heading = 0 -> 0
      [] heading = 45 -> 707
      [] heading = 90 -> 1000
      [] heading = 180 -> 0

CompassNorth(heading) ==
    CASE heading = 0 -> 1000
      [] heading = 45 -> 707
      [] heading = 90 -> 0
      [] heading = 180 -> 0 - 1000

\* The vector instructions of the frame.
Vectors == {i \in 1..Len(painter) : painter[i].part = "vector"}

\* C27: the vector of an aircraft ends at the screen position of the world
\* point reached from its position along its compass heading (0 = north =
\* -y, 90 = east = +x) over ground_speed * 0.5442765 * vector_minutes * 60
\* studs; for heading 0, 120 kt and 3 minutes from (0, 150) that point is
\* due north at 120 * 0.5442765 * 180 = 11756.3724 studs.
C27_VectorEnd ==
    /\ \A c \in DOMAIN aircraft :
          LET info == aircraft[c].info
              d == distance_studs(info.ground_speed, DefaultVectorMinutes)
              end == predicted_position(aircraft[c], DefaultVectorMinutes)
          IN  /\ d * 100 - info.ground_speed * 9797 * StudRes
                     \in (0 - info.ground_speed * StudRes)
                             .. (info.ground_speed * StudRes)
              /\ end[1] - Studs(info.position.x)
                     = TimesMilli(d, CompassEast(info.heading))
              /\ Studs(info.position.y) - end[2]
                     = TimesMilli(d, CompassNorth(info.heading))
              /\ info = Airborne
                    => /\ end[1] = 0
                       /\ (Studs(150) - end[2]) * 100 - 1175637 * StudRes
                              \in (0 - (100 + StudRes)) .. (100 + StudRes)
    /\ lastOp.op = "render"
          => \A i \in Vectors :
                LET a == aircraft[painter[i].callsign]
                    end == predicted_position(a, lastOp.display.vector_minutes)
                IN  /\ painter[i].pos
                           = studs_to_screen(projection,
                                             Studs(a.info.position.x),
                                             Studs(a.info.position.y))
                    /\ painter[i].end
                           = studs_to_screen(projection, end[1], end[2])

\* A frame with the vector of the aircraft at (0, 150) heading north at
\* 120 kt: it is drawn straight up from the symbol.
C27_Witness ==
    /\ lastOp.op = "render"
    /\ "ABC123" \in DOMAIN aircraft
    /\ aircraft["ABC123"].info = Airborne
    /\ \E i \in Vectors :
          /\ painter[i].callsign = "ABC123"
          /\ painter[i].end[1] = painter[i].pos[1]
          /\ painter[i].end[2] < painter[i].pos[2]

----------------------------------------------------------------------------
(* Point reads and ATIS writes, checked under ReadSpec *)

StoreNow == <<aircraft, controllers, atis, config, status>>

\* C28: a point read never fails: get_aircraft_by_callsign and get_atis
\* can be called in every state with every key, return the stored value
\* for a key that is present and the explicit not-found result for a key
\* that is absent, and leave the store as it was.
C28_PointReadTotal ==
    /\ \A c \in ReadCallsigns : ENABLED CallGetAircraftByCallsign(c)
    /\ \A a \in ReadAirports : ENABLED CallGetAtis(a)
    /\ lastOp.op = "get_aircraft_by_callsign"
          => /\ StoreNow = lastOp.before
             /\ lastOp.arg \notin DOMAIN aircraft => lastOp.result = <<>>
             /\ lastOp.arg \in DOMAIN aircraft
                   => lastOp.result = <<aircraft[lastOp.arg]>>
    /\ lastOp.op = "get_atis"
          => /\ StoreNow = lastOp.before
             /\ lastOp.arg \notin DOMAIN atis => lastOp.result = <<>>
             /\ lastOp.arg \in DOMAIN atis
                   => lastOp.result = <<atis[lastOp.arg]>>

\* A read of an airport without ATIS in a store that holds the ATIS of
\* another airport: not found, and the airport still has no entry.
C28_Witness ==
    /\ lastOp.op = "get_atis"
    /\ lastOp.arg \notin DOMAIN atis
    /\ lastOp.result = <<>>
    /\ atis # EmptyMap
    /\ aircraft # EmptyMap

\* C30: a write of an ATIS replaces the entry of its airport and leaves the
\* entries of all other airports as they were, and get_atis returns the
\* entry of the airport asked for; so after any sequence of writes a read
\* returns the most recent write for that airport.
C30_AtisLastWriteWins ==
    /\ lastOp.op = "update_atis"
          => /\ atis[lastOp.arg.airport] = lastOp.arg
             /\ DOMAIN atis = DOMAIN lastOp.before \cup {lastOp.arg.airport}
             /\ \A k \in DOMAIN atis \ {lastOp.arg.airport} :
                   atis[k] = lastOp.before[k]
    /\ \A k \in DOMAIN atis : atis[k].airport = k
    /\ \A a \in ReadAirports :
          get_atis(a) = IF a \in DOMAIN atis THEN <<atis[a]>> ELSE <<>>
    /\ lastOp.op = "get_atis" => lastOp.result = get_atis(lastOp.arg)

\* An airport's ATIS was overwritten with another letter while another
\* airport has an entry.
C30_Witness ==
    /\ lastOp.op = "update_atis"
    /\ lastOp.arg.airport \in DOMAIN lastOp.before
    /\ lastOp.before[lastOp.arg.airport].letter # lastOp.arg.letter
    /\ DOMAIN atis = Airports

----------------------------------------------------------------------------
(* Snapshots of the readers, checked under LockSpec *)

\* Thread th is between two store operations, working on what it read.
Returned(th) == opPc[th].op = "idle"

\* C29: a thread that has returned from a store operation holds no lock of
\* the store, and the copy it read stays what it was whatever the other
\* threads write to the store afterwards.
C29_SnapshotsIndependent ==
    /\ [](\A th \in Threads : Returned(th) => held[th] = {})
    /\ [][\A th \in Threads :
             (Returned(th) /\ opPc'[th].op = "idle") => snap'[th] = snap[th]
         ]_vars

\* The UI thread works on the configuration it copied out while the store
\* already holds another one and the network thread writes the aircraft.
C29_Witness ==
    /\ Returned("ui")
    /\ SnapshotComplete("ui")
    /\ config \in WholeConfigs
    /\ config # Snapshot("ui")
    /\ <<"aircraft", "w">> \in held["net"]

----------------------------------------------------------------------------
(* Data-tag lines, checked under TagSpec *)

\* n >= 0 in at least three digits.
ThreeDigits(n) ==
    IF n < 10 THEN <<"0", "0">> \o Digits(n)
    ELSE IF n < 100 THEN <<"0">> \o Digits(n)
    ELSE Digits(n)

\* The flight level shown for an altitude in feet.
Hundreds(altitude) == altitude \div 100

\* What a piece of a template stands for on the tag of the aircraft t: the
\* value for a token, the piece itself for anything else.
Shown(piece, t) ==
    CASE piece = Str_callsign -> t.callsign
      [] piece = Str_altitude03 -> ThreeDigits(Hundreds(t.info.altitude))
      [] piece = Str_altitude -> Digits(Hundreds(t.info.altitude))
      [] piece = Str_speed03 -> ThreeDigits(t.info.speed)
      [] piece = Str_speed -> Digits(t.info.speed)
      [] piece = Str_gs03 -> ThreeDigits(t.info.ground_speed)
      [] piece = Str_gs -> Digits(t.info.ground_speed)
      [] piece = Str_heading03 -> ThreeDigits(t.info.heading)
      [] piece = Str_heading -> Digits(t.info.heading)
      [] piece = Str_type -> t.info.aircraft_type
      [] OTHER -> piece

ShownLine(pieces, t) == Concat([i \in 1..Len(pieces) |-> Shown(pieces[i], t)])

\* The line formatted last is, piece by piece, what its template stands for.
FormattedAsShown ==
    \A pieces \in TemplatePieces :
        Concat(pieces) = lastOp.arg
            => lastOp.result = ShownLine(pieces, lastOp.tracked)

NoBrace(str) == \A i \in 1..Len(str) : str[i] # "{"

\* C31 as stated: every recognized token of the template is replaced with
\* the value of the aircraft and every other brace token is left verbatim,
\* for every aircraft.
C31_TokensReplaced == lastOp.op = "format_tag_line" => FormattedAsShown

\* C31: for an aircraft whose callsign holds no brace, every recognized
\* token of the template is replaced with the value of the aircraft, the
\* altitude in hundreds of feet, the :03 forms padded with zeros to three
\* digits, and every other brace token is left verbatim.
C31_TokensReplacedPlainCallsign ==
    (lastOp.op = "format_tag_line" /\ NoBrace(lastOp.tracked.callsign))
        => FormattedAsShown

\* The default second line for 12345 ft and 87 kt: "F123 087KT".
C31_Witness ==
    /\ lastOp.op = "format_tag_line"
    /\ lastOp.arg = Concat(DefaultLine2)
    /\ lastOp.tracked.info.altitude = 12345
    /\ lastOp.result = <<"F", "1", "2", "3", " ", "0", "8", "7", "K", "T">>

----------------------------------------------------------------------------
(* The spacing of the history, checked under HistorySpec *)

\* Two history points are more than the threshold apart.
Apart(p, q) ==
    (p[1] - q[1]) * (p[1] - q[1]) + (p[2] - q[2]) * (p[2] - q[2])
        > HistoryThreshold * HistoryThreshold

\* C32: any two consecutive points of the retained history of an aircraft
\* are more than 100 world units apart.
C32_HistoryPointsApart ==
    \A c \in DOMAIN aircraft :
        \A i \in 1..(Len(aircraft[c].history) - 1) :
            Apart(aircraft[c].history[i], aircraft[c].history[i + 1])

----------------------------------------------------------------------------
(* The history under configuration swaps, checked under SwapSpec *)

\* C33: once an aircraft has received an update, its history is no longer
\* than display.history_length of the configuration active at that update,
\* also after a swap that lowered the limit.
C33_HistoryWithinActiveLimit ==
    lastOp.op = "update_aircraft_batch"
        => \A c \in DOMAIN lastOp.arg :
              Len(aircraft[c].history) <= config.display.history_length

----------------------------------------------------------------------------
(* Progress of the store operations, checked under LockFairSpec *)

\* Thread th is at a lock it cannot take now.
Waiting(th) ==
    /\ Running(th)
    /\ Instr(th)[1] = "lock"
    /\ ~CanLock(th, Instr(th)[2], Instr(th)[3])

\* Thread o holds the lock thread th waits for in a mode that excludes it,
\* or th wants to read and o waits to write.
WaitsFor(th, o) ==
    /\ Waiting(th)
    /\ o # th
    /\ \/ \E h \in held[o] :
             /\ h[1] = Instr(th)[2]
             /\ Instr(th)[3] = "w" \/ h[2] = "w"
       \/ /\ Instr(th)[3] = "r"
          /\ Running(o)
          /\ Instr(o) = <<"lock", Instr(th)[2], "w">>

\* A set of threads each of which waits for a lock held inside the set.
CyclicWait ==
    \E S \in SUBSET Threads :
        /\ S # {}
        /\ \A th \in S : \E o \in S : WaitsFor(th, o)

\* C34: no cyclic lock wait is reachable, and every store operation that
\* was called acquires its locks and returns.
C34_DeadlockFree ==
    /\ [](~CyclicWait)
    /\ \A th \in Threads : (opPc[th].op # "idle") ~> (opPc[th].op = "idle")

\* The UI thread waits for the aircraft lock held by update_aircraft_batch,
\* which itself waits for the configuration lock held by update_config.
C34_Witness ==
    /\ WaitsFor("ui", "net")
    /\ WaitsFor("net", "watcher")
    /\ opPc["net"].op = "update_aircraft_batch"
    /\ ~Waiting("watcher")

----------------------------------------------------------------------------
(* Keep-alive tasks across reconnects, checked under Spec *)

\* The keep-alive task of connection i has been spawned and has not ended.
KeepAliveAlive(i) == kaPc[i] \in {"tick", "send"}

\* C35: at most one keep-alive task is alive at any time.
C35_AtMostOneKeepAlive ==
    Cardinality({i \in 1..MaxConn : KeepAliveAlive(i)}) <= 1

----------------------------------------------------------------------------
(* The aircraft count of the connection status, checked under StoreSpec *)

\* C36: aircraft_count is the number of aircraft in the store.
C36_CountMatchesStore ==
    status.aircraft_count = Cardinality(DOMAIN aircraft)

----------------------------------------------------------------------------
(* Aircraft frames with an entry that fails, checked under RouterSpec *)

\* The last step handled an aircraft frame with an entry that does not match
\* the schema.
PartialBatchHandled ==
    /\ Handled
    /\ lastOp.frame.t \in AircraftTypes
    /\ ~lastOp.frame.valid
    /\ lastOp.frame.d.bad # {}

\* C37: an aircraft frame with an entry that fails validation creates and
\* updates no aircraft, and aircraft_count and last_data_received stay as
\* they were.
C37_BatchAllOrNothing ==
    PartialBatchHandled
        => /\ aircraft = AircraftBefore
           /\ status.aircraft_count = lastOp.before[5].aircraft_count
           /\ status.last_data_received = lastOp.before[5].last_data_received

\* ABC123 is tracked at (0,0) and XYZ1 is not tracked; the frame carries a
\* sample of ABC123 at (60,80) that matches the schema and an entry for XYZ1
\* that does not.
C37_Witness ==
    /\ PartialBatchHandled
    /\ lastOp.frame.t = "ACFT_DATA"
    /\ lastOp.frame.d.bad = {"XYZ1"}
    /\ DOMAIN aircraft = {"ABC123"}
    /\ aircraft["ABC123"].info.position = Pos(0, 0)
    /\ lastOp.frame.d.good["ABC123"].position = Pos(60, 80)

----------------------------------------------------------------------------
(* Flight plans across sample updates, checked under StoreSpec *)

\* C38: the flight plan of an aircraft that stays in the store changes only
\* in a step that applies a flight plan for its callsign, and then to that
\* plan.
C38_FlightPlanStaysAttached ==
    [][\A c \in DOMAIN aircraft \cap DOMAIN aircraft' :
          aircraft'[c].flight_plan # aircraft[c].flight_plan
              => /\ lastOp'.op = "update_flight_plan"
                 /\ lastOp'.arg.callsign = c
                 /\ aircraft'[c].flight_plan = <<lastOp'.arg>>]_vars

\* A batch moved ABC123, which was tracked with its flight plan, far enough
\* to record a point, and updated XYZ1, which has no plan; the plan of
\* ABC123 is still attached.
C38_Witness ==
    /\ lastOp.op = "update_aircraft_batch"
    /\ DOMAIN lastOp.arg = {"ABC123", "XYZ1"}
    /\ "ABC123" \in DOMAIN lastOp.before
    /\ lastOp.before["ABC123"].flight_plan = <<ClientPlan>>
    /\ lastOp.before["ABC123"].info # lastOp.arg["ABC123"]
    /\ aircraft["ABC123"].flight_plan = <<ClientPlan>>
    /\ aircraft["ABC123"].history # <<>>
    /\ aircraft["XYZ1"].flight_plan = <<>>

----------------------------------------------------------------------------
(* The configuration after startup, checked under StartupSpec *)

\* C39: after startup and before anything else has happened the store
\* serves the configuration that was loaded from config.toml.
C39_StoreServesLoadedConfig ==
    lastOp.op = "main" => config = lastOp.loaded

====
